---- MODULE Spec2Model ----
(***************************************************************************)
(* A model of the git_ops slice store (inmanta_plugins/git_ops/store.py):  *)
(* the on-disk draft and active directories, the in-memory caches of one   *)
(* SliceStore, the compile mode, and the operations of the store together  *)
(* with the schema-driven merge engine merge_attributes.                   *)
(*                                                                         *)
(* Encoding of python values:                                              *)
(*   - a dict (json object) is a function with a set of strings as domain; *)
(*     the empty dict {} is the empty function <<>>;                       *)
(*   - a scalar attribute value is a string, python None being "None";     *)
(*   - a value that is "a dict or None" (an optional relation, the         *)
(*     `previous` argument of merge_attributes, a cache field that is      *)
(*     None until loaded) is a sequence of length at most one: <<>> is     *)
(*     None and <<d>> is the value d;                                      *)
(*   - a list of dicts (a collection relation) is a sequence;              *)
(*   - an exception raised by a function is the dict [error |-> kind].     *)
(***************************************************************************)
EXTENDS Integers, Sequences, FiniteSets, TLC

---------------------------------------------------------------------------
(* Generic helpers                                                         *)

NoneValue == "None"

Some(v) == <<v>>

IsError(t) == "error" \in DOMAIN t

Error(kind) == [error |-> kind]

Range(s) == {s[i] : i \in DOMAIN s}

\* dict.update on an ordered list of names: a name already present keeps
\* its position, a new name is appended.
RECURSIVE UpdateNames(_, _)
UpdateNames(names, new) ==
    IF new = <<>> THEN names
    ELSE UpdateNames(IF Head(new) \in Range(names) THEN names
                     ELSE Append(names, Head(new)),
                     Tail(new))

\* The first exception among a sequence of results, as a sequence of length
\* at most one.
RECURSIVE FirstError(_)
FirstError(vals) ==
    IF vals = <<>> THEN <<>>
    ELSE IF IsError(Head(vals)) THEN <<Head(vals)>>
    ELSE FirstError(Tail(vals))

---------------------------------------------------------------------------
(* The schema the store is constructed with                                *)

\* cardinality_max = None of a collection relation
Unbounded == -1

Relation(name, entity, cmin, cmax) ==
    [name |-> name, entity |-> entity,
     cardinality_min |-> cmin, cardinality_max |-> cmax]

\* entity_schema() of the slice classes, by class name.  The schema is an
\* input of the store; the one taken here has the shape of the slice classes
\* of the test suite: TestSlice embeds one required, one optional and a
\* sequence of TestEmbeddedSlice.  To have every case of the schema code at
\* work, the embedded class embeds itself optionally (a recursive slice
\* type) and the attribute unique_id of the slice is declared on a base
\* class.  The attribute a is the one the compile test reads.  Every slice
\* class derives from SliceObjectABC, whose fields operation and path are
\* attributes of its entity schema.
EntitySchema(cls) ==
    CASE cls = "SliceObjectABC" ->
           [name |-> "SliceObjectABC",
            keys |-> <<>>,
            base_entities |-> <<>>,
            attributes |-> <<"operation", "path">>,
            embedded_entities |-> <<>>]
      [] cls = "TestSlice" ->
           [name |-> "TestSlice",
            keys |-> <<>>,
            base_entities |-> <<"TestBase">>,
            attributes |-> <<"a">>,
            embedded_entities |->
              << Relation("embedded_required", "TestEmbeddedSlice", 1, 1),
                 Relation("embedded_optional", "TestEmbeddedSlice", 0, 1),
                 Relation("embedded_sequence", "TestEmbeddedSlice", 0, Unbounded) >>]
      [] cls = "TestBase" ->
           [name |-> "TestBase",
            keys |-> <<>>,
            base_entities |-> <<"SliceObjectABC">>,
            attributes |-> <<"unique_id">>,
            embedded_entities |-> <<>>]
      [] cls = "TestEmbeddedSlice" ->
           [name |-> "TestEmbeddedSlice",
            keys |-> <<"name">>,
            base_entities |-> <<"SliceObjectABC">>,
            attributes |-> <<"name", "unique_id">>,
            embedded_entities |->
              << Relation("child", "TestEmbeddedSlice", 0, 1) >>]

\* The fields of the pydantic classes that have a default value.
FieldDefaults(cls) ==
    CASE cls = "SliceObjectABC" -> [operation |-> "create", path |-> "."]
      [] cls = "TestSlice" ->
           [operation |-> "create", path |-> ".", unique_id |-> NoneValue,
            embedded_optional |-> <<>>, embedded_sequence |-> <<>>]
      [] cls = "TestBase" ->
           [operation |-> "create", path |-> ".", unique_id |-> NoneValue]
      [] cls = "TestEmbeddedSlice" ->
           [operation |-> "create", path |-> ".", unique_id |-> NoneValue,
            child |-> <<>>]

\* The fields declared with exclude=True: model_dump leaves them out.
Excluded == {"operation", "path"}

RECURSIVE all_attributes(_)
RECURSIVE BaseAttributes(_, _)
BaseAttributes(bases, acc) ==
    IF bases = <<>> THEN acc
    ELSE BaseAttributes(SubSeq(bases, 1, Len(bases) - 1),
                        UpdateNames(acc, all_attributes(EntitySchema(bases[Len(bases)]))))

all_attributes(schema) ==
    UpdateNames(BaseAttributes(schema.base_entities, <<>>), schema.attributes)

\* dict.update on an ordered list of relations, by relation name.
RECURSIVE UpdateRelations(_, _)
UpdateRelations(rels, new) ==
    IF new = <<>> THEN rels
    ELSE LET r == Head(new)
             present == \E i \in DOMAIN rels : rels[i].name = r.name
         IN UpdateRelations(
                IF present
                THEN [i \in DOMAIN rels |-> IF rels[i].name = r.name THEN r ELSE rels[i]]
                ELSE Append(rels, r),
                Tail(new))

RECURSIVE all_relations(_)
RECURSIVE BaseRelations(_, _)
BaseRelations(bases, acc) ==
    IF bases = <<>> THEN acc
    ELSE BaseRelations(SubSeq(bases, 1, Len(bases) - 1),
                       UpdateRelations(acc, all_relations(EntitySchema(bases[Len(bases)]))))

all_relations(schema) ==
    UpdateRelations(BaseRelations(schema.base_entities, <<>>), schema.embedded_entities)

\* The slice classes, and what all_attributes() and all_relations() return
\* for each of them
Classes == {"SliceObjectABC", "TestSlice", "TestBase", "TestEmbeddedSlice"}

AllAttributes == [cls \in Classes |-> all_attributes(EntitySchema(cls))]

AllRelations == [cls \in Classes |-> all_relations(EntitySchema(cls))]

AllRelationNames ==
    [cls \in Classes |-> {AllRelations[cls][i].name : i \in DOMAIN AllRelations[cls]}]

RelationNames(schema) == AllRelationNames[schema.name]

RelationNamed(schema, name) ==
    LET rels == AllRelations[schema.name]
    IN rels[CHOOSE i \in DOMAIN rels : rels[i].name = name]

cardinality(relation) == <<relation.cardinality_min, relation.cardinality_max>>

---------------------------------------------------------------------------
(* SliceFile.emit_slice: validation of a file's content                    *)

\* pydantic.TypeAdapter(schema).validate_python(raw).model_dump(mode="json"):
\* every declared field is taken from the input, or from its default when
\* the input omits it; a missing field without default is a validation
\* error; fields the class does not declare are dropped, and so are the
\* excluded fields operation and path.
\* The sub-dicts a relation field holds, as a sequence.
Members(rel, value) ==
    IF cardinality(rel) = <<1, 1>> THEN <<value>> ELSE value

AllFields == [cls \in Classes |-> Range(AllAttributes[cls]) \cup AllRelationNames[cls]]

Fields(schema) == AllFields[schema.name]

\* The fields of a dumped model
DumpedFields(schema) == Fields(schema) \ Excluded

RECURSIVE IsValid(_, _)
IsValid(raw, cls) ==
    LET schema == EntitySchema(cls)
    IN \A f \in Fields(schema) :
         IF f \notin DOMAIN raw THEN f \in DOMAIN FieldDefaults(cls)
         ELSE IF f \notin RelationNames(schema) THEN TRUE
         ELSE LET rel == RelationNamed(schema, f)
                  kids == Members(rel, raw[f])
              IN \A i \in DOMAIN kids : IsValid(kids[i], rel.entity)

RECURSIVE model_dump(_, _)
model_dump(raw, cls) ==
    LET schema == EntitySchema(cls)
    IN [f \in DumpedFields(schema) |->
          IF f \notin DOMAIN raw THEN FieldDefaults(cls)[f]
          ELSE IF f \notin RelationNames(schema) THEN raw[f]
          ELSE LET rel == RelationNamed(schema, f)
               IN IF cardinality(rel) = <<1, 1>>
                  THEN model_dump(raw[f], rel.entity)
                  ELSE [i \in DOMAIN raw[f] |-> model_dump(raw[f][i], rel.entity)]]

validate_python(raw, cls) ==
    IF IsValid(raw, cls) THEN model_dump(raw, cls) ELSE Error("ValidationError")

---------------------------------------------------------------------------
(* The merge engine                                                        *)

\* str(path + dict_path.InDict(name)); str(dict_path.NullPath()) is "."
InDict(path, name) == IF path = "." THEN name ELSE path \o "." \o name

\* tuple((k, str(value[k])) for k in relation.entity.keys)
MemberKey(keys, value) == [i \in DOMAIN keys |-> <<keys[i], value[keys[i]]>>]

HasKeys(keys, value) == \A i \in DOMAIN keys : keys[i] \in DOMAIN value

RECURSIVE KeyString(_)
KeyString(key) ==
    IF key = <<>> THEN ""
    ELSE "[" \o Head(key)[1] \o "=" \o Head(key)[2] \o "]" \o KeyString(Tail(key))

\* str(path + dict_path.KeyedList(name, key))
KeyedList(path, name, key) == InDict(path, name \o KeyString(key))

\* The keys of the dict {key(m): m for m in members}, in insertion order.
RECURSIVE KeyOrder(_, _)
KeyOrder(keys, members) ==
    IF members = <<>> THEN <<>>
    ELSE LET init == KeyOrder(keys, SubSeq(members, 1, Len(members) - 1))
             k == MemberKey(keys, members[Len(members)])
         IN IF k \in Range(init) THEN init ELSE Append(init, k)

\* A lookup that finds no member for any key
KeyedValueNone(keys, members, key) == <<>>

\* The value the dict {key(m): m for m in members} holds for a key: the last
\* member with that key, or None.
KeyedValue(keys, members, key) ==
    LET hits == {i \in DOMAIN members : MemberKey(keys, members[i]) = key}
    IN IF hits = {} THEN <<>>
       ELSE <<members[CHOOSE i \in hits : \A j \in hits : j <= i]>>

\* The child operation that takes every sub-dict of current for a new one
ChildOperationCreate(operation, previous_value) ==
    IF operation = "delete" THEN operation ELSE "create"

\* The child operation that does not look at the enclosing operation
ChildOperationFresh(operation, previous_value) ==
    IF previous_value = <<>> THEN "create" ELSE "update"

\* operation if operation == "delete" else "create" if previous_value is None
\* else "update"
ChildOperation(operation, previous_value) ==
    IF operation = "delete" THEN operation
    ELSE IF previous_value = <<>> THEN "create" ELSE "update"

\* The branch `case None, dict()` storing None where the previous value is
\* to be reused
DropPrevious(previous_value) ==
    IF "operation" \notin DOMAIN previous_value[1] THEN Error("KeyError")
    ELSE IF previous_value[1]["operation"] # "delete" THEN Error("AssertionError")
    ELSE [value |-> [operation |-> "delete",
                     path |-> previous_value[1]["path"]]]

\* The branch `case None, dict()`: the previous value is reused, after the
\* assertion that it carries operation = delete.
ReusePrevious(previous_value) ==
    IF "operation" \notin DOMAIN previous_value[1] THEN Error("KeyError")
    ELSE IF previous_value[1]["operation"] # "delete" THEN Error("AssertionError")
    ELSE [value |-> previous_value[1]]

\* match (current_value, previous_value) of an optional relation: the case
\* that applies, each value being None or a dict
MatchOptional(current_value, previous_value) ==
    IF current_value = <<>> /\ previous_value = <<>> THEN "neither"
    ELSE IF current_value = <<>> /\ previous_value # <<>> THEN "previous"
    ELSE IF current_value # <<>> THEN "current"
    ELSE "fallback"

\* match (current_value, previous_value) of a key of a collection: the case
\* that applies; there is no case for a key that neither dict holds
MatchMember(current_value, previous_value) ==
    IF current_value = <<>> /\ previous_value # <<>> THEN "previous"
    ELSE IF current_value # <<>> THEN "current"
    ELSE "fallback"

RECURSIVE merge_attributes(_, _, _, _, _)
RECURSIVE MergeRelation(_, _, _, _, _)

\* One iteration of the loop over schema.all_relations(): [value |-> v] for
\* the value stored in merged[relation.name], or the exception raised.
MergeRelation(current, previous, operation, path, relation) ==
    LET name == relation.name
        entity == EntitySchema(relation.entity)
        \* what the loop stores for a merged sub-dict, a merged optional
        \* sub-dict and a merged list of sub-dicts
        one(m) == IF IsError(m) THEN m ELSE [value |-> m]
        optional(m) == IF IsError(m) THEN m ELSE [value |-> <<m.value>>]
        many(results) ==
            IF FirstError(results) # <<>> THEN FirstError(results)[1]
            ELSE [value |-> [i \in DOMAIN results |-> results[i].value]]
    IN
    IF cardinality(relation) = <<1, 1>> THEN
        IF name \notin DOMAIN current THEN Error("KeyError")
        ELSE IF previous # <<>> /\ name \notin DOMAIN previous[1] THEN Error("KeyError")
        ELSE one(merge_attributes(
                     current[name],
                     IF previous # <<>> THEN <<previous[1][name]>> ELSE <<>>,
                     operation, InDict(path, name), entity))
    ELSE IF cardinality(relation) = <<0, 1>> THEN
        LET current_value == IF name \in DOMAIN current THEN current[name] ELSE <<>>
            previous_value == IF previous # <<>> /\ name \in DOMAIN previous[1]
                              THEN previous[1][name] ELSE <<>>
        IN IF MatchOptional(current_value, previous_value) = "neither"
           THEN [value |-> <<>>]
           ELSE IF MatchOptional(current_value, previous_value) = "previous"
           THEN optional(ReusePrevious(previous_value))
           ELSE IF MatchOptional(current_value, previous_value) = "current"
           THEN optional(one(merge_attributes(
                                 current_value[1], previous_value,
                                 ChildOperation(operation, previous_value),
                                 InDict(path, name), entity)))
           ELSE Error("ValueError")
    ELSE
        IF name \notin DOMAIN current THEN Error("KeyError")
        ELSE IF \E i \in DOMAIN current[name] : ~HasKeys(entity.keys, current[name][i])
             THEN Error("KeyError")
        ELSE IF previous # <<>> /\ name \notin DOMAIN previous[1] THEN Error("KeyError")
        ELSE
        LET current_list == current[name]
            previous_list == IF previous # <<>> THEN previous[1][name] ELSE <<>>
        IN IF \E i \in DOMAIN previous_list : ~HasKeys(entity.keys, previous_list[i])
           THEN Error("KeyError")
           ELSE
           LET current_keys == KeyOrder(entity.keys, current_list)
               previous_keys == KeyOrder(entity.keys, previous_list)
               member(key) ==
                    LET current_value == KeyedValue(entity.keys, current_list, key)
                        previous_value == KeyedValue(entity.keys, previous_list, key)
                    IN IF MatchMember(current_value, previous_value) = "previous"
                       THEN ReusePrevious(previous_value)
                       ELSE IF MatchMember(current_value, previous_value) = "current"
                       THEN one(merge_attributes(
                                    current_value[1], previous_value,
                                    ChildOperation(operation, previous_value),
                                    KeyedList(path, name, key), entity))
                       ELSE Error("ValueError")
               members(union) == [i \in DOMAIN union |-> member(union[i])]
           IN many(members(
                  current_keys \o
                  SelectSeq(previous_keys, LAMBDA k : k \notin Range(current_keys))))

\* merge_attributes with the loop over schema.all_attributes() reading the
\* previous dict first
merge_attributes_inherit(current, previous, operation, path, schema) ==
    LET attributes == SelectSeq(AllAttributes[schema.name],
                                LAMBDA a : a \notin {"operation", "path"})
        relations == AllRelations[schema.name]
        index(k) == CHOOSE i \in DOMAIN relations : relations[i].name = k
        merged(results) ==
            IF FirstError(results) # <<>> THEN FirstError(results)[1]
            ELSE [k \in {"operation", "path"} \cup Range(attributes)
                          \cup RelationNames(schema) |->
                    IF k \in RelationNames(schema) THEN results[index(k)].value
                    ELSE IF k \in Range(attributes)
                         THEN IF previous # <<>> /\ k \in DOMAIN previous[1]
                              THEN previous[1][k]
                              ELSE IF k \in DOMAIN current THEN current[k]
                              ELSE NoneValue
                    ELSE IF k = "operation" THEN operation
                    ELSE path]
    IN merged([i \in DOMAIN relations |->
                 MergeRelation(current, previous, operation, path, relations[i])])

\* merge_attributes(current, previous, operation=, path=, schema=): the merged
\* dict, or the exception raised.  The members of a merged collection are
\* listed in the order: keys of current, then keys of previous alone (python
\* iterates over a set of keys, in no specified order).
merge_attributes(current, previous, operation, path, schema) ==
    LET attributes == SelectSeq(AllAttributes[schema.name],
                                LAMBDA a : a \notin {"operation", "path"})
        relations == AllRelations[schema.name]
        index(k) == CHOOSE i \in DOMAIN relations : relations[i].name = k
        merged(results) ==
            IF FirstError(results) # <<>> THEN FirstError(results)[1]
            ELSE [k \in {"operation", "path"} \cup Range(attributes)
                          \cup RelationNames(schema) |->
                    IF k \in RelationNames(schema) THEN results[index(k)].value
                    ELSE IF k \in Range(attributes)
                         THEN IF k \in DOMAIN current THEN current[k] ELSE NoneValue
                    ELSE IF k = "operation" THEN operation
                    ELSE path]
    IN merged([i \in DOMAIN relations |->
                 MergeRelation(current, previous, operation, path, relations[i])])

---------------------------------------------------------------------------
(* Bounds and inputs                                                       *)

\* The highest version the active directory may hold.
MaxVersion == 2

\* The number of times an external writer touches the draft directory.
MaxEdits == 2

\* The slice names of the store
Names == {"s1", "s2"}

\* SliceStore.name
StoreName == "test"

\* SliceStore.schema
SliceClass == "TestSlice"

COMPILE_UPDATE == "update"
COMPILE_SYNC == "sync"
COMPILE_EXPORT == "export"

CompileModes == {COMPILE_UPDATE, COMPILE_SYNC, COMPILE_EXPORT}

Embedded(n) == [name |-> n]

\* A draft that leaves every field with a default out
DraftPartial == [a |-> "0", embedded_required |-> Embedded("r")]

\* The same slice, with every field written out
DraftPlain == validate_python(DraftPartial, SliceClass)

\* A slice with an optional sub-structure, a collection member and a nested
\* optional sub-structure
DraftRich ==
    validate_python([a |-> "1",
                     embedded_required |->
                        [name |-> "r", child |-> <<Embedded("c")>>],
                     embedded_optional |-> <<Embedded("o")>>,
                     embedded_sequence |-> <<Embedded("e")>>], SliceClass)

\* The documents an external writer puts in a draft file; all of them are
\* valid for the schema.
Drafts == {DraftPartial, DraftPlain, DraftRich}

\* The values and paths of set_slice_attribute
AttributeValues == {"7"}
AttributePaths == {"unique_id"}

---------------------------------------------------------------------------
(* State                                                                   *)

VARIABLES
    source_dir,          \* the draft directory: slice name -> document
    draft_file_version,  \* slice name -> the version in the name of its draft file
    active_dir,          \* the active directory: <<name, version>> -> document
    COMPILE_MODE,        \* const.COMPILE_MODE
    SLICE_STORE_REGISTRY,\* store.SLICE_STORE_REGISTRY: store name -> store
    registered,          \* the store names registered since the last end of run
    source_slice_files,  \* SliceStore.source_slice_files (None or the names)
    source_slices,       \* SliceStore.source_slices (None or name -> Slice)
    active_slice_files,  \* SliceStore.active_slice_files (None or the files)
    active_slices,       \* SliceStore.active_slices (None or file -> Slice)
    slices,              \* SliceStore.slices (None or name -> Slice)
    raised,              \* the exception the last operation raised, or "none"
    source_read,         \* the draft directory as the cached source slices read it
    edits,               \* the number of external writes so far
    written_back,        \* the draft files that hold what the update() of a finalizer wrote
    resync               \* activation runs that promoted since a draft last changed

vars == <<source_dir, draft_file_version, active_dir, COMPILE_MODE, SLICE_STORE_REGISTRY, registered,
          source_slice_files, source_slices, active_slice_files, active_slices,
          slices, raised, source_read, edits, written_back, resync>>

registry == <<SLICE_STORE_REGISTRY, registered>>

disk == <<source_dir, active_dir>>
cache == <<source_slice_files, source_slices, active_slice_files, active_slices, slices>>

\* A Slice, with the identity of its attributes dict: `ref` tells which
\* python dict object the slice holds, so that an in-place change of a dict
\* shows in every slice that holds it.
Slice(name, store_name, version, attributes, deleted, ref) ==
    [name |-> name, store_name |-> store_name, version |-> version,
     attributes |-> attributes, deleted |-> deleted, ref |-> ref]

ActiveRef(version) == <<"active", version>>
SourceRef == <<"source", 0>>
ResolvedRef == <<"resolved", 0>>

\* Slice.__eq__ of the dataclass: the fields are compared, not the identity
SliceEq(s, t) ==
    /\ s.name = t.name
    /\ s.store_name = t.store_name
    /\ s.version = t.version
    /\ s.attributes = t.attributes
    /\ s.deleted = t.deleted

\* SliceFile.emit_slice of a file with the given content; file_version and
\* default_version are None or a version.
emit_slice(name, file_version, content, default_version, ref) ==
    LET version == IF file_version # <<>> THEN file_version ELSE default_version
        deleted == content = <<>>
        emit(attributes) ==
            IF version = <<>> THEN Error("ValueError")
            ELSE IF IsError(attributes) THEN attributes
            ELSE Slice(name, StoreName, version[1], attributes, deleted, ref)
    IN emit(IF deleted THEN content ELSE validate_python(content, SliceClass))

---------------------------------------------------------------------------
(* Loading                                                                 *)

Max(S) == CHOOSE x \in S : \A y \in S : y <= x

DraftModes == {COMPILE_UPDATE, COMPILE_SYNC}

\* The attributes of a SliceStore that cache what it has loaded, as a record
Store ==
    [source_slice_files |-> source_slice_files, source_slices |-> source_slices,
     active_slice_files |-> active_slice_files, active_slices |-> active_slices,
     slices |-> slices]

\* What a method leaves: the store afterwards and the exception raised
Outcome(self, exception) == [self |-> self, raised |-> exception]

\* A loop over a python dict or set runs in an order the model does not fix.
\* Such a loop either runs to the end, or raises at the element stop[1] after
\* the elements `done`.
NoStop == [done |-> {}, stop |-> <<>>]

LoopOrders(all, failing) ==
    IF failing = {} THEN {NoStop}
    ELSE {[done |-> d, stop |-> <<f>>] : d \in SUBSET (all \ failing), f \in failing}

ActiveNames(active) == {f[1] : f \in DOMAIN active}

VersionsOf(active, name) == {f[2] : f \in {g \in DOMAIN active : g[1] = name}}

\* SliceStore.load_active_slice_files: the store afterwards
load_active_slice_files(self) ==
    IF self.active_slice_files # <<>> THEN self
    ELSE [self EXCEPT !.active_slice_files = Some(DOMAIN active_dir)]

\* SliceStore.load_active_slices
load_active_slices(self) ==
    IF self.active_slices # <<>> THEN Outcome(self, "none")
    ELSE LET loaded == load_active_slice_files(self)
             outcome(emitted) ==
                 LET failing == {f \in DOMAIN emitted : IsError(emitted[f])}
                 IN IF failing # {}
                    THEN Outcome(loaded, emitted[CHOOSE f \in failing : TRUE].error)
                    ELSE Outcome([loaded EXCEPT !.active_slices = Some(emitted)], "none")
         IN outcome([f \in loaded.active_slice_files[1] |->
                       emit_slice(f[1], <<f[2]>>, active_dir[f], <<>>, ActiveRef(f[2]))])

\* A lookup that takes the oldest active slice of the name
get_oldest_slice(active, name) ==
    IF name \notin ActiveNames(active)
    THEN Slice(name, StoreName, 0, <<>>, TRUE, <<"latest", 0>>)
    ELSE active[<<name, CHOOSE v \in VersionsOf(active, name) :
                          \A w \in VersionsOf(active, name) : v <= w>>]

\* SliceStore.get_latest_slice, over the loaded active slices
get_latest_slice(active, name) ==
    IF name \notin ActiveNames(active)
    THEN Slice(name, StoreName, 0, <<>>, TRUE, <<"latest", 0>>)
    ELSE active[<<name, Max(VersionsOf(active, name))>>]

\* SliceStore.load_source_slice_files: the store afterwards
load_source_slice_files(self) ==
    IF self.source_slice_files # <<>> THEN self
    ELSE [self EXCEPT !.source_slice_files = Some(DOMAIN source_dir)]

\* A version assignment that gives every draft a new version, also when its
\* content is the latest active content
SourceSliceBumped(active, name) ==
    LET latest == get_latest_slice(active, name)
    IN IF name \notin DOMAIN source_dir THEN Error("FileNotFoundError")
       ELSE emit_slice(name, draft_file_version[name], source_dir[name], <<latest.version + 1>>, SourceRef)

\* A version assignment that never gives a draft a new version once its name
\* has active slices
SourceSliceReused(active, name) ==
    LET latest == get_latest_slice(active, name)
    IN IF name \notin DOMAIN source_dir THEN Error("FileNotFoundError")
       ELSE IF name \notin ActiveNames(active)
       THEN emit_slice(name, draft_file_version[name], source_dir[name], <<1>>, SourceRef)
       ELSE latest

\* The version assignment of load_source_slices for the draft file of a name
SourceSlice(active, name) ==
    LET latest == get_latest_slice(active, name)
    IN IF name \notin DOMAIN source_dir THEN Error("FileNotFoundError")
       ELSE IF name \notin ActiveNames(active)
       THEN emit_slice(name, draft_file_version[name], source_dir[name], <<1>>, SourceRef)
       ELSE IF source_dir[name] = latest.attributes THEN latest
       ELSE emit_slice(name, draft_file_version[name], source_dir[name], <<latest.version + 1>>, SourceRef)

\* A tombstone that is emitted anew at every load, also when the latest
\* active slice is deleted already
DeletedSliceAnew(active, name) ==
    LET latest == get_latest_slice(active, name)
    IN Slice(name, StoreName, latest.version + 1, <<>>, TRUE, SourceRef)

\* A tombstone that takes the version of the latest active slice
DeletedSliceSameVersion(active, name) ==
    LET latest == get_latest_slice(active, name)
    IN IF latest.deleted THEN latest
       ELSE Slice(name, StoreName, latest.version, <<>>, TRUE, SourceRef)

\* The source slice load_source_slices adds for a name that has active
\* slices and no draft file
DeletedSlice(active, name) ==
    LET latest == get_latest_slice(active, name)
    IN IF latest.deleted THEN latest
       ELSE Slice(name, StoreName, latest.version + 1, <<>>, TRUE, SourceRef)

\* SliceStore.load_source_slices; the loop over the draft files goes as
\* `order` says
load_source_slices(self, order) ==
    IF self.source_slices # <<>> THEN Outcome(self, "none")
    ELSE LET outcome(a) ==
                 LET loaded == load_source_slice_files(a.self)
                     active == loaded.active_slices[1]
                     files == loaded.source_slice_files[1]
                     names == IF order.stop # <<>> THEN order.done \cup {order.stop[1]}
                              ELSE files \cup ActiveNames(active)
                     stored(emitted) ==
                         Outcome([loaded EXCEPT !.source_slices =
                                    Some([name \in names \ Range(order.stop) |->
                                            emitted[name]])],
                                 IF order.stop # <<>> THEN emitted[order.stop[1]].error
                                 ELSE "none")
                 IN IF a.raised # "none" THEN a
                    ELSE stored([name \in names |->
                                   IF name \in files THEN SourceSlice(active, name)
                                   ELSE DeletedSlice(active, name)])
         IN outcome(load_active_slices(self))

\* The ways the loop of load_source_slices can go
SourceOrders(self) ==
    IF self.source_slices # <<>> THEN {NoStop}
    ELSE LET orders(a) ==
                 LET loaded == load_source_slice_files(a.self)
                     files == loaded.source_slice_files[1]
                 IN IF a.raised # "none" THEN {NoStop}
                    ELSE LoopOrders(
                           files,
                           {n \in files : IsError(SourceSlice(loaded.active_slices[1], n))})
         IN orders(load_active_slices(self))

\* The active slices of a name, newest first
RECURSIVE NewestFirst(_, _, _)
NewestFirst(active, name, versions) ==
    IF versions = {} THEN <<>>
    ELSE <<active[<<name, Max(versions)>>]>>
         \o NewestFirst(active, name, versions \ {Max(versions)})

\* The loop `while len(previous) >= 2` of load_slices, over the list of
\* attribute dicts (each with its identity); <<exception>> when a merge raises
RECURSIVE FoldPrevious(_)
FoldPrevious(previous) ==
    IF Len(previous) < 2 THEN previous
    ELSE LET folded(m) ==
                 IF IsError(m) THEN <<m>>
                 ELSE FoldPrevious(<<[attributes |-> m, ref |-> ResolvedRef]>>
                                   \o SubSeq(previous, 3, Len(previous)))
         IN folded(merge_attributes(previous[1].attributes, <<previous[2].attributes>>,
                                    "delete", ".", EntitySchema(SliceClass)))

\* attributes["version"], attributes["slice_store"], attributes["slice_name"]
Annotate(attributes, version, name) ==
    [k \in DOMAIN attributes \cup {"version", "slice_store", "slice_name"} |->
       IF k = "version" THEN version
       ELSE IF k = "slice_store" THEN StoreName
       ELSE IF k = "slice_name" THEN name
       ELSE attributes[k]]

\* A resolution that merges the current slice with every active version of
\* the name, the latest included when it is the current slice itself
ResolveCurrentWhole(active, current, s) ==
    LET sorted == NewestFirst(active, s, VersionsOf(active, s))
        all == [i \in DOMAIN sorted |->
                  [attributes |-> sorted[i].attributes, ref |-> sorted[i].ref]]
        merged(m) ==
            IF IsError(m) THEN m
            ELSE Slice(s, StoreName, current.version,
                       Annotate(m, current.version, s), current.deleted, ResolvedRef)
        resolved(previous) ==
            IF previous # <<>> /\ IsError(previous[1]) THEN previous[1]
            ELSE IF current.deleted
            THEN IF previous = <<>> THEN Error("IndexError")
                 ELSE Slice(s, StoreName, current.version,
                            Annotate(previous[1].attributes, current.version, s),
                            current.deleted, previous[1].ref)
            ELSE merged(merge_attributes(
                            current.attributes,
                            IF previous # <<>> THEN <<previous[1].attributes>> ELSE <<>>,
                            IF previous # <<>> THEN "update" ELSE "create",
                            ".", EntitySchema(SliceClass)))
    IN resolved(FoldPrevious(all))

\* The body of the loop `for s in slices` of load_slices once `current` is
\* known: the resolved Slice of the name, or the exception raised
ResolveCurrent(active, current, s) ==
    LET latest == get_latest_slice(active, s)
        sorted == NewestFirst(active, s, VersionsOf(active, s))
        all == [i \in DOMAIN sorted |->
                  [attributes |-> sorted[i].attributes, ref |-> sorted[i].ref]]
        rest(a) == IF a # <<>> /\ SliceEq(current, latest) THEN Tail(a) ELSE a
        merged(m) ==
            IF IsError(m) THEN m
            ELSE Slice(s, StoreName, current.version,
                       Annotate(m, current.version, s), current.deleted, ResolvedRef)
        resolved(previous) ==
            IF previous # <<>> /\ IsError(previous[1]) THEN previous[1]
            ELSE IF current.deleted
            THEN IF previous = <<>> THEN Error("IndexError")
                 ELSE Slice(s, StoreName, current.version,
                            Annotate(previous[1].attributes, current.version, s),
                            current.deleted, previous[1].ref)
            ELSE merged(merge_attributes(
                            current.attributes,
                            IF previous # <<>> THEN <<previous[1].attributes>> ELSE <<>>,
                            IF previous # <<>> THEN "update" ELSE "create",
                            ".", EntitySchema(SliceClass)))
    IN resolved(FoldPrevious(rest(all)))

\* One iteration of the loop `for s in slices` of load_slices
ResolveSlice(active, source, mode, s) ==
    IF mode \in DraftModes /\ s \notin DOMAIN source THEN Error("KeyError")
    ELSE ResolveCurrent(active,
                        IF mode \in DraftModes THEN source[s]
                        ELSE get_latest_slice(active, s),
                        s)

\* The change a resolved slice brings to a cached slice of its name: when the
\* resolved attributes are the cached slice's own dict (same identity), the
\* annotations written into them show in the cached slice.
Shared(cached, resolved) ==
    IF cached.ref = resolved.ref
    THEN [cached EXCEPT !.attributes = resolved.attributes]
    ELSE cached

\* The start of load_slices: the active slices and, in the modes that look
\* at the drafts, the source slices are loaded
Preloaded(self, source_order) ==
    IF COMPILE_MODE \in DraftModes THEN load_source_slices(self, source_order)
    ELSE load_active_slices(self)

\* A set of names that leaves out the names that have a draft only
SliceNamesActive(loaded) == ActiveNames(loaded.active_slices[1])

\* slices = set(active_slices.keys()) | load_source_slices().keys()
SliceNames(loaded) ==
    ActiveNames(loaded.active_slices[1])
    \cup (IF COMPILE_MODE \in DraftModes THEN DOMAIN loaded.source_slices[1] ELSE {})

Resolved(loaded) ==
    [s \in SliceNames(loaded) |->
       ResolveSlice(loaded.active_slices[1],
                    IF COMPILE_MODE \in DraftModes THEN loaded.source_slices[1] ELSE <<>>,
                    COMPILE_MODE, s)]

\* SliceStore.load_slices; its loops go as the orders say.  What the loop
\* has resolved when it raises stays in self.slices.
load_slices(self, source_order, order) ==
    IF self.slices # <<>> THEN Outcome(self, "none")
    ELSE LET stored(loaded, resolved) ==
                 LET active == loaded.active_slices[1]
                     kept == IF order.stop = <<>> THEN DOMAIN resolved ELSE order.done
                 IN Outcome(
                      [loaded EXCEPT
                         !.active_slices =
                            Some([f \in DOMAIN active |->
                                    IF f[1] \in kept THEN Shared(active[f], resolved[f[1]])
                                    ELSE active[f]]),
                         !.source_slices =
                            IF loaded.source_slices = <<>> THEN <<>>
                            ELSE Some([s \in DOMAIN loaded.source_slices[1] |->
                                         IF s \in kept /\ s \in DOMAIN resolved
                                         THEN Shared(loaded.source_slices[1][s], resolved[s])
                                         ELSE loaded.source_slices[1][s]]),
                         !.slices = Some([s \in kept |-> resolved[s]])],
                      IF order.stop = <<>> THEN "none" ELSE resolved[order.stop[1]].error)
             outcome(pre) ==
                 IF pre.raised # "none" THEN pre ELSE stored(pre.self, Resolved(pre.self))
         IN outcome(Preloaded(self, source_order))

\* The ways the loop of load_slices can go, once the slices are preloaded
SliceOrders(self, source_order) ==
    IF self.slices # <<>> THEN {NoStop}
    ELSE LET failing(resolved) ==
                 LoopOrders(DOMAIN resolved,
                            {s \in DOMAIN resolved : IsError(resolved[s])})
             orders(pre) ==
                 IF pre.raised # "none" THEN {NoStop} ELSE failing(Resolved(pre.self))
         IN orders(Preloaded(self, source_order))

\* The ways a call of load_slices can go
LoadOrders(self) ==
    UNION {{[source |-> so, slices |-> o] : o \in SliceOrders(self, so)} :
             so \in IF COMPILE_MODE \in DraftModes THEN SourceOrders(self) ELSE {NoStop}}

---------------------------------------------------------------------------
(* Persisting                                                              *)

\* The draft directory after slice_file.write(slice.attributes) for the
\* given files
WriteSource(self, files) ==
    [n \in DOMAIN source_dir \cup files |->
       IF n \in files THEN self.source_slices[1][n].attributes ELSE source_dir[n]]

\* An active directory that holds the promoted slices and nothing else
WriteActiveOnly(self) ==
    LET source == self.source_slices[1]
        written == {<<n, source[n].version>> : n \in DOMAIN source}
    IN [f \in written |-> source[f[1]].attributes]

\* A loop of sync that writes every source slice to every version file of
\* its name as well
WriteActiveAllVersions(self) ==
    LET source == self.source_slices[1]
        written == {<<n, source[n].version>> : n \in DOMAIN source}
    IN [f \in DOMAIN active_dir \cup written |->
          IF f[1] \in DOMAIN source THEN source[f[1]].attributes ELSE active_dir[f]]

\* The active directory after the loop of sync that writes every source
\* slice to <name>@v<version>.json
WriteActive(self) ==
    LET source == self.source_slices[1]
        written == {<<n, source[n].version>> : n \in DOMAIN source}
    IN [f \in DOMAIN active_dir \cup written |->
          IF f \in written THEN source[f[1]].attributes ELSE active_dir[f]]

\* The loaded draft files without source slice: self.source_slices[name]
\* raises
UnknownFiles(self) ==
    {n \in self.source_slice_files[1] : n \notin DOMAIN self.source_slices[1]}

\* The loaded draft files sync finds gone: slice_file.read() raises
MissingFiles(self) ==
    {n \in self.source_slice_files[1] \ UnknownFiles(self) : n \notin DOMAIN source_dir}

\* The loaded draft files sync finds changed:
\* slice_file.read() != slice.attributes
ChangedFiles(self) ==
    {n \in self.source_slice_files[1] \ (UnknownFiles(self) \cup MissingFiles(self)) :
        source_dir[n] # self.source_slices[1][n].attributes}

\* A sync without the check of the draft files: the source slices are
\* written to the active directory whatever the draft files hold
sync_unchecked(self) ==
    IF COMPILE_MODE # COMPILE_SYNC
    THEN {[source_dir |-> source_dir, active_dir |-> active_dir,
           raised |-> "RuntimeError"]}
    ELSE IF self.source_slices = <<>> \/ UnknownFiles(self) # {}
    THEN {[source_dir |-> source_dir, active_dir |-> active_dir, raised |-> "none"]}
    ELSE {[source_dir |-> source_dir, active_dir |-> WriteActive(self),
           raised |-> "none"]}

\* A sync that writes the active files before it raises for the drafts that
\* changed
sync_written(self) ==
    IF COMPILE_MODE # COMPILE_SYNC
    THEN {[source_dir |-> source_dir, active_dir |-> active_dir,
           raised |-> "RuntimeError"]}
    ELSE IF self.source_slices = <<>>
    THEN {[source_dir |-> source_dir, active_dir |-> active_dir, raised |-> "none"]}
    ELSE IF UnknownFiles(self) \cup MissingFiles(self) # {}
    THEN {[source_dir |-> WriteSource(self, w), active_dir |-> active_dir,
           raised |-> IF f \in UnknownFiles(self) THEN "KeyError"
                      ELSE "FileNotFoundError"] :
             w \in SUBSET ChangedFiles(self),
             f \in UnknownFiles(self) \cup MissingFiles(self)}
    ELSE IF ChangedFiles(self) # {}
    THEN {[source_dir |-> WriteSource(self, ChangedFiles(self)),
           active_dir |-> WriteActive(self), raised |-> "SyncBlocked"]}
    ELSE {[source_dir |-> source_dir, active_dir |-> WriteActive(self),
           raised |-> "none"]}

\* A sync that does not look at the compile mode
sync_ungated(self) ==
    IF self.source_slices = <<>>
    THEN {[source_dir |-> source_dir, active_dir |-> active_dir, raised |-> "none"]}
    ELSE IF UnknownFiles(self) \cup MissingFiles(self) # {}
    THEN {[source_dir |-> source_dir, active_dir |-> active_dir,
           raised |-> IF UnknownFiles(self) # {} THEN "KeyError"
                      ELSE "FileNotFoundError"]}
    ELSE IF ChangedFiles(self) # {}
    THEN {[source_dir |-> WriteSource(self, ChangedFiles(self)),
           active_dir |-> active_dir, raised |-> "SyncBlocked"]}
    ELSE {[source_dir |-> source_dir, active_dir |-> WriteActive(self),
           raised |-> "none"]}

\* SliceStore.sync: the directories afterwards and the exception raised.
\* The files are checked in the order of a python dict: when the loop raises
\* at a file, any of the changed files may have been written before.
\* "SyncBlocked" is the RuntimeError "Sync blocked: ...".
sync(self) ==
    IF COMPILE_MODE # COMPILE_SYNC
    THEN {[source_dir |-> source_dir, active_dir |-> active_dir,
           raised |-> "RuntimeError"]}
    ELSE IF self.source_slices = <<>>
    THEN {[source_dir |-> source_dir, active_dir |-> active_dir, raised |-> "none"]}
    ELSE IF UnknownFiles(self) \cup MissingFiles(self) # {}
    THEN {[source_dir |-> WriteSource(self, w), active_dir |-> active_dir,
           raised |-> IF f \in UnknownFiles(self) THEN "KeyError"
                      ELSE "FileNotFoundError"] :
             w \in SUBSET ChangedFiles(self),
             f \in UnknownFiles(self) \cup MissingFiles(self)}
    ELSE IF ChangedFiles(self) # {}
    THEN {[source_dir |-> WriteSource(self, ChangedFiles(self)),
           active_dir |-> active_dir, raised |-> "SyncBlocked"]}
    ELSE {[source_dir |-> source_dir, active_dir |-> WriteActive(self),
           raised |-> "none"]}

\* An update that writes no draft file
update_unwritten(self) ==
    {[source_dir |-> source_dir, raised |-> "none"]}

\* An update that writes the documents the draft files held when they were
\* loaded, not the attributes of the source slices
update_raw(self) ==
    IF self.source_slices = <<>>
    THEN {[source_dir |-> source_dir, raised |-> "none"]}
    ELSE
    {[source_dir |-> [n \in DOMAIN source_dir \cup DOMAIN source_read[1] |->
                        IF n \in DOMAIN source_read[1] THEN source_read[1][n]
                        ELSE source_dir[n]],
      raised |-> "none"]}

\* SliceStore.update: the draft directory afterwards and the exception raised
update(self) ==
    IF self.source_slices = <<>>
    THEN {[source_dir |-> source_dir, raised |-> "none"]}
    ELSE IF UnknownFiles(self) # {}
    THEN {[source_dir |-> WriteSource(self, w), raised |-> "KeyError"] :
             w \in SUBSET (self.source_slice_files[1] \ UnknownFiles(self))}
    ELSE {[source_dir |-> WriteSource(self, self.source_slice_files[1]),
           raised |-> "none"]}

\* SliceStore.clear: the store afterwards
clear(self) ==
    [source_slice_files |-> <<>>, source_slices |-> <<>>,
     active_slice_files |-> <<>>, active_slices |-> <<>>, slices |-> <<>>]

\* A finalizer that writes the active files at the end of every compile
\* that has source slices, whatever its mode
persist_store_activating(self) ==
    IF self.source_slices = <<>> \/ UnknownFiles(self) # {}
    THEN {[source_dir |-> source_dir, active_dir |-> active_dir, raised |-> "none"]}
    ELSE {[source_dir |-> source_dir, active_dir |-> WriteActive(self),
           raised |-> "none"]}

\* The finalizer persist_store, up to store.clear(): update() or sync() by
\* the compile mode.  The directories afterwards and the exception raised;
\* an exception leaves the finalizer before clear().
persist_store(self) ==
    IF COMPILE_MODE = COMPILE_UPDATE
    THEN {[source_dir |-> out.source_dir, active_dir |-> active_dir,
           raised |-> out.raised] : out \in update(self)}
    ELSE IF COMPILE_MODE = COMPILE_SYNC THEN sync(self)
    ELSE {[source_dir |-> source_dir, active_dir |-> active_dir, raised |-> "none"]}

---------------------------------------------------------------------------
(* Bookkeeping of the model                                                *)

\* The store's attributes become those of the record
SetStore(self) ==
    /\ source_slice_files' = self.source_slice_files
    /\ source_slices' = self.source_slices
    /\ active_slice_files' = self.active_slice_files
    /\ active_slices' = self.active_slices
    /\ slices' = self.slices
    /\ source_read' = IF self.source_slices = <<>> THEN <<>>
                      ELSE IF source_slices = <<>> THEN Some(source_dir)
                      ELSE source_read

\* Whether sync, called now, writes the active files
Promotes(self) ==
    /\ COMPILE_MODE = COMPILE_SYNC
    /\ self.source_slices # <<>>
    /\ UnknownFiles(self) = {}
    /\ MissingFiles(self) = {}
    /\ ChangedFiles(self) = {}

\* The cap on the versions: sync is not taken when it would write a version
\* above MaxVersion
WithinBounds(self) ==
    Promotes(self) =>
        \A n \in DOMAIN self.source_slices[1] :
            self.source_slices[1][n].version <= MaxVersion

\* The draft files of `written_back` that a method leaves as they are
Kept(written) ==
    {n \in written_back : n \in DOMAIN written /\ written[n] = source_dir[n]}

\* written_back after the finalizer: the update() of a compile in update mode
\* that returns has written the source slice of every draft file it had
\* loaded
Updated(self, out) ==
    IF COMPILE_MODE = COMPILE_UPDATE /\ out.raised = "none" /\ self.source_slices # <<>>
    THEN Kept(out.source_dir) \cup self.source_slice_files[1]
    ELSE Kept(out.source_dir)

\* resync tells the activation runs that wrote the active files since a
\* draft file last changed: 0 when none did; after one did, 1 when a draft
\* file it had not loaded was there at its sync and 2 when it had loaded
\* every draft file; 3 once a further one did after 2.
Resync(self, promoted) ==
    IF source_dir' # source_dir THEN 0
    ELSE IF ~promoted THEN resync
    ELSE IF resync >= 2 THEN 3
    ELSE IF DOMAIN source_dir = self.source_slice_files[1] THEN 2
    ELSE 1

---------------------------------------------------------------------------
(* Attribute edits                                                         *)

\* path.set_element(attributes, value) for a path made of one dict key
set_element(attributes, path, value) ==
    [k \in DOMAIN attributes \cup {path} |-> IF k = path THEN value ELSE attributes[k]]

\* The store after path.set_element on the attributes dict `ref` of the
\* name: every cached slice that holds that dict shows the new value
SetInStore(self, name, ref, path, value) ==
    LET set(slice) == IF slice.name = name /\ slice.ref = ref
                      THEN [slice EXCEPT !.attributes = set_element(@, path, value)]
                      ELSE slice
        each(cached) == IF cached = <<>> THEN <<>>
                        ELSE Some([k \in DOMAIN cached[1] |-> set(cached[1][k])])
    IN [self EXCEPT !.active_slices = each(@),
                    !.source_slices = each(@),
                    !.slices = each(@)]

\* SliceStore.get_one_slice(name); load_slices goes as `orders` says
get_one_slice(self, name, orders) ==
    LET found(r) ==
            IF r.raised # "none" THEN r
            ELSE IF name \notin DOMAIN r.self.slices[1] THEN Outcome(r.self, "LookupError")
            ELSE r
    IN found(load_slices(self, orders.source, orders.slices))

\* The exceptions that `except LookupError` catches
LookupErrors == {"LookupError", "KeyError", "IndexError"}

\* The paths get_slice_attribute is called with: one that every validated
\* slice has and one that no slice has
GetPaths == AttributePaths \cup {"b"}

\* default of get_slice_attribute
DefaultValue == "default"

\* SliceStore.get_slice_attribute(name, path, default=DefaultValue): the
\* store afterwards, the exception raised and the value returned
get_slice_attribute(self, name, path, orders) ==
    LET got(g) ==
            IF g.raised \in LookupErrors
            THEN [self |-> g.self, raised |-> "none", value |-> DefaultValue]
            ELSE IF g.raised # "none"
            THEN [self |-> g.self, raised |-> g.raised, value |-> NoneValue]
            ELSE IF path \notin DOMAIN g.self.slices[1][name].attributes
            THEN [self |-> g.self, raised |-> "none", value |-> DefaultValue]
            ELSE [self |-> g.self, raised |-> "none",
                  value |-> g.self.slices[1][name].attributes[path]]
    IN got(get_one_slice(self, name, orders))

\* A set_slice_attribute that does not look at the compile mode
set_slice_attribute_ungated(self, name, path, value, source_order, order) ==
    LET resolved(g) ==
            IF g.raised # "none" THEN g
            ELSE Outcome(SetInStore(g.self, name, g.self.slices[1][name].ref,
                                    path, value),
                         "none")
        edited(l) ==
            IF l.raised # "none" THEN l
            ELSE IF name \notin DOMAIN l.self.source_slices[1]
            THEN Outcome(l.self, "KeyError")
            ELSE resolved(get_one_slice(
                              SetInStore(l.self, name,
                                         l.self.source_slices[1][name].ref,
                                         path, value),
                              name, [source |-> NoStop, slices |-> order]))
    IN edited(load_source_slices(self, source_order))

\* SliceStore.set_slice_attribute(name, path, value); the loads go as the
\* orders say
set_slice_attribute(self, name, path, value, source_order, order) ==
    IF COMPILE_MODE # COMPILE_UPDATE THEN Outcome(self, "RuntimeError")
    ELSE LET resolved(g) ==
                 IF g.raised # "none" THEN g
                 ELSE Outcome(SetInStore(g.self, name, g.self.slices[1][name].ref,
                                         path, value),
                              "none")
             edited(l) ==
                 IF l.raised # "none" THEN l
                 ELSE IF name \notin DOMAIN l.self.source_slices[1]
                 THEN Outcome(l.self, "KeyError")
                 ELSE resolved(get_one_slice(
                                   SetInStore(l.self, name,
                                              l.self.source_slices[1][name].ref,
                                              path, value),
                                   name, [source |-> NoStop, slices |-> order]))
         IN edited(load_source_slices(self, source_order))

\* The ways a call of set_slice_attribute can go
EditOrders(self, name, path, value) ==
    IF COMPILE_MODE # COMPILE_UPDATE THEN {[source |-> NoStop, slices |-> NoStop]}
    ELSE LET orders(so, l) ==
                 IF l.raised # "none" \/ name \notin DOMAIN l.self.source_slices[1]
                 THEN {[source |-> so, slices |-> NoStop]}
                 ELSE {[source |-> so, slices |-> o] :
                         o \in SliceOrders(SetInStore(l.self, name,
                                                      l.self.source_slices[1][name].ref,
                                                      path, value),
                                           NoStop)}
         IN UNION {orders(so, load_source_slices(self, so)) : so \in SourceOrders(self)}

---------------------------------------------------------------------------
(* Actions                                                                 *)

\* The store names a compile may construct a store with
StoreNames == {StoreName, "other"}

\* A SliceStore object of the name; the objects of a registry differ by id
NewStore(stores, name) == [name |-> name, id |-> Cardinality(DOMAIN stores) + 1]

\* SliceStore.register_store with every name taking the place of the store
\* registered before
register_store_anew(stores, self) ==
    [registry |-> [n \in DOMAIN stores \cup {self.name} |->
                     IF n = self.name THEN self ELSE stores[n]],
     raised |-> "none"]

\* SliceStore.register_store, called at the end of SliceStore.__init__: the
\* registry afterwards, and the exception raised
register_store(stores, self) ==
    IF self.name \in DOMAIN stores
    THEN [registry |-> stores, raised |-> "RuntimeError"]
    ELSE [registry |-> [n \in DOMAIN stores \cup {self.name} |->
                          IF n = self.name THEN self ELSE stores[n]],
          raised |-> "none"]

\* get_store(store_name): the store, or the exception raised
get_store(stores, store_name) ==
    IF store_name \notin DOMAIN stores THEN Error("LookupError")
    ELSE stores[store_name]

\* The version a draft file may have in its name (<name>@v<version>.<ext>)
DraftFileVersion == 2

\* The store after construction, the directories empty
InitStore ==
    /\ source_dir = <<>>
    /\ active_dir = <<>>
    /\ COMPILE_MODE \in CompileModes
    /\ \E r \in {register_store(<<>>, NewStore(<<>>, StoreName))} :
          SLICE_STORE_REGISTRY = r.registry
    /\ registered = {}
    /\ source_slice_files = <<>>
    /\ source_slices = <<>>
    /\ active_slice_files = <<>>
    /\ active_slices = <<>>
    /\ slices = <<>>
    /\ raised = "none"
    /\ source_read = <<>>
    /\ edits = 0
    /\ written_back = {}
    /\ resync = 0

\* The external writer names every draft file <name>.<ext>
Init ==
    /\ InitStore
    /\ draft_file_version = [n \in Names |-> <<>>]

\* An external writer creates or rewrites a draft file
ExternalWrite(name, draft) ==
    /\ edits < MaxEdits
    /\ IF name \in DOMAIN source_dir THEN source_dir[name] # draft ELSE TRUE
    /\ source_dir' = [n \in DOMAIN source_dir \cup {name} |->
                        IF n = name THEN draft ELSE source_dir[n]]
    /\ edits' = edits + 1
    /\ written_back' = written_back \ {name}
    /\ resync' = 0
    /\ UNCHANGED <<active_dir, COMPILE_MODE, draft_file_version, registry, cache, raised, source_read>>

\* An external writer removes a draft file
ExternalRemove(name) ==
    /\ edits < MaxEdits
    /\ name \in DOMAIN source_dir
    /\ source_dir' = [n \in DOMAIN source_dir \ {name} |-> source_dir[n]]
    /\ edits' = edits + 1
    /\ written_back' = written_back \ {name}
    /\ resync' = 0
    /\ UNCHANGED <<active_dir, COMPILE_MODE, draft_file_version, registry, cache, raised, source_read>>

\* The plugin unroll_slices: SliceStore.get_all_slices
GetAllSlices ==
    /\ UNCHANGED <<disk, COMPILE_MODE, draft_file_version, registry, edits, written_back, resync>>
    /\ \E orders \in LoadOrders(Store) :
         \E r \in {load_slices(Store, orders.source, orders.slices)} :
            /\ SetStore(r.self)
            /\ raised' = r.raised

\* The plugin get_slice_attribute: SliceStore.get_one_slice(name)
GetOneSlice(name) ==
    /\ UNCHANGED <<disk, COMPILE_MODE, draft_file_version, registry, edits, written_back, resync>>
    /\ \E orders \in LoadOrders(Store) :
         \E r \in {get_one_slice(Store, name, orders)} :
            /\ SetStore(r.self)
            /\ raised' = r.raised

\* SliceStore.set_slice_attribute(name, path, value)
SetSliceAttribute(name, path, value) ==
    /\ UNCHANGED <<disk, COMPILE_MODE, draft_file_version, registry, edits, written_back, resync>>
    /\ \E orders \in EditOrders(Store, name, path, value) :
         \E r \in {set_slice_attribute(Store, name, path, value,
                                       orders.source, orders.slices)} :
            /\ SetStore(r.self)
            /\ raised' = r.raised

\* The finalizer persist_store, at the end of the compile.  The next compile
\* runs in the mode `next`.
PersistStore(next) ==
    /\ WithinBounds(Store)
    /\ \E out \in persist_store(Store) :
         /\ source_dir' = out.source_dir
         /\ active_dir' = out.active_dir
         /\ raised' = out.raised
         /\ SetStore(IF out.raised = "none" THEN clear(Store) ELSE Store)
         /\ written_back' = Updated(Store, out)
    /\ resync' = Resync(Store, Promotes(Store))
    /\ COMPILE_MODE' = next
    /\ registered' = {}
    /\ UNCHANGED <<draft_file_version, SLICE_STORE_REGISTRY, edits>>

Next ==
    \/ \E name \in Names, draft \in Drafts : ExternalWrite(name, draft)
    \/ \E name \in Names : ExternalRemove(name)
    \/ GetAllSlices
    \/ \E name \in Names : GetOneSlice(name)
    \/ \E name \in Names, path \in AttributePaths, value \in AttributeValues :
          SetSliceAttribute(name, path, value)
    \/ \E next \in CompileModes : PersistStore(next)

Spec == Init /\ [][Next]_vars

\* SliceStore.sync called on the store by itself, in whatever mode the
\* compile runs
Sync ==
    /\ WithinBounds(Store)
    /\ \E out \in sync(Store) :
         /\ source_dir' = out.source_dir
         /\ active_dir' = out.active_dir
         /\ raised' = out.raised
         /\ written_back' = Kept(out.source_dir)
    /\ resync' = Resync(Store, Promotes(Store))
    /\ UNCHANGED <<COMPILE_MODE, draft_file_version, registry, cache, source_read, edits>>

\* SliceStore.update called on the store by itself, in whatever mode the
\* compile runs
Update ==
    /\ \E out \in update(Store) :
         /\ source_dir' = out.source_dir
         /\ raised' = out.raised
         /\ written_back' = Kept(out.source_dir)
    /\ resync' = Resync(Store, FALSE)
    /\ UNCHANGED <<active_dir, COMPILE_MODE, draft_file_version, registry, cache, source_read, edits>>

\* SliceStore.get_slice_attribute(name, path) called on the store
GetSliceAttribute(name, path) ==
    /\ UNCHANGED <<disk, COMPILE_MODE, draft_file_version, registry, edits, written_back, resync>>
    /\ \E orders \in LoadOrders(Store) :
         \E r \in {get_slice_attribute(Store, name, path, orders)} :
            /\ SetStore(r.self)
            /\ raised' = r.raised

\* The compiles of Spec, and code that calls the methods of the store that
\* the finalizer and the plugins do not call in that way
NextMethods ==
    \/ Next
    \/ Sync
    \/ Update
    \/ \E name \in Names, path \in GetPaths : GetSliceAttribute(name, path)

SpecMethods == Init /\ [][NextMethods]_vars

\* The external writer names the draft files of some slice names
\* <name>@v<version>.<ext>, which SliceFile.from_path parses as well
InitFiles ==
    /\ InitStore
    /\ draft_file_version \in [Names -> {<<>>, <<DraftFileVersion>>}]

SpecFiles == InitFiles /\ [][Next]_vars

\* SliceStore(name=name, ...): the constructor registers the new store.  The
\* directories of a store other than StoreName are empty and stay so: its
\* caches hold nothing and its update() and sync() write nothing.
Construct(name) ==
    /\ \E r \in {register_store(SLICE_STORE_REGISTRY,
                                NewStore(SLICE_STORE_REGISTRY, name))} :
         /\ SLICE_STORE_REGISTRY' = r.registry
         /\ raised' = r.raised
         /\ registered' = IF r.raised = "none" THEN registered \cup {name}
                          ELSE registered
    /\ UNCHANGED <<disk, COMPILE_MODE, draft_file_version, cache, source_read, edits, written_back, resync>>

\* get_store(store_name), as the plugins call it
GetStore(store_name) ==
    /\ \E r \in {get_store(SLICE_STORE_REGISTRY, store_name)} :
         raised' = IF IsError(r) THEN r.error ELSE "none"
    /\ UNCHANGED <<disk, COMPILE_MODE, draft_file_version, registry, cache, source_read, edits, written_back, resync>>

\* The compiles of Spec, with stores constructed and looked up by name
NextRegistry ==
    \/ Next
    \/ \E name \in StoreNames : Construct(name)
    \/ \E name \in StoreNames : GetStore(name)

SpecRegistry == Init /\ [][NextRegistry]_vars

---------------------------------------------------------------------------
(* Properties                                                              *)

\* The step that ends an activating compile: persist_store in sync mode
ActivationEnd ==
    /\ COMPILE_MODE = COMPILE_SYNC
    /\ \E next \in CompileModes : PersistStore(next)

\* The step that ends an activating compile at which sync() finds nothing in
\* its way and writes the active files
Promotion ==
    /\ ActivationEnd
    /\ source_slices # <<>>
    /\ raised' = "none"

\* The highest version a directory of active files holds for a name, 0 when
\* it holds none
LatestVersion(dir, name) ==
    IF VersionsOf(dir, name) = {} THEN 0 ELSE Max(VersionsOf(dir, name))

\* The content of the latest active file of a name; the empty object when
\* the name has no active file
LatestContent(name) ==
    IF VersionsOf(active_dir, name) = {} THEN <<>>
    ELSE active_dir[<<name, LatestVersion(active_dir, name)>>]

\* The content of the draft of a name; the empty object when it has none
DraftContent(name) ==
    IF name \in DOMAIN source_dir THEN source_dir[name] ELSE <<>>

\* The loaded draft files whose content on disk is not the attributes of
\* the Slice computed for them at load time
Drifted ==
    {n \in source_slice_files[1] \cap DOMAIN source_dir \cap DOMAIN source_slices[1] :
        source_dir[n] # source_slices[1][n].attributes}

\* C1, as stated: when an activation run has succeeded and no draft file is
\* created, changed or removed after it, the sync() of a following activation
\* run creates no active version file.
C1_AsStated ==
    [][Promotion /\ resync >= 1 => DOMAIN active_dir' = DOMAIN active_dir]_vars

\* C1, amended: when an activation run has succeeded, every draft file that
\* was there at its sync() was one it had loaded, and no draft file is
\* created, changed or removed after it, the sync() of a following activation
\* run creates no active version file: the (name, version) pairs of the
\* active directory are the same before and after it.
C1_IdempotentResync ==
    [][Promotion /\ resync >= 2 => DOMAIN active_dir' = DOMAIN active_dir]_vars

\* Two activation runs in a row have promoted the same, untouched drafts
C1_Witness ==
    /\ resync = 3
    /\ DOMAIN active_dir # {}
    /\ DOMAIN source_dir # {}

\* C2: the latest active version of a name never decreases, and a
\* successful sync() (of a run that had loaded every draft file that is
\* there) raises it by exactly 1 when the name's draft content differs from
\* its latest active content, and leaves it as it is when it does not.
C2_VersionMonotonicity ==
    [][/\ \A n \in Names : LatestVersion(active_dir', n) >= LatestVersion(active_dir, n)
       /\ Promotion /\ DOMAIN source_dir = source_slice_files[1] =>
            \A n \in Names :
               LatestVersion(active_dir', n) =
                  LatestVersion(active_dir, n)
                  + (IF DraftContent(n) # LatestContent(n) THEN 1 ELSE 0)]_vars

C4_NoEditLost ==
    [][ActivationEnd /\ raised' = "SyncBlocked" =>
          \A n \in Drifted :
             source_dir[n] # source_read[1][n] => source_dir'[n] = source_dir[n]]_vars

\* C5: when no draft file was written, created or removed since the source
\* slices were loaded, sync() does not raise sync-blocked.
C5_NoFalseSyncBlock ==
    [][/\ ActivationEnd
       /\ source_slices # <<>>
       /\ source_read = Some(source_dir)
       => raised' # "SyncBlocked"]_vars

\* The names the loaded source slices have to tombstone: they have active
\* slices, the latest of them not deleted, and no draft file was found
Tombstoned ==
    {n \in ActiveNames(active_slices[1]) \ source_slice_files[1] :
        ~get_latest_slice(active_slices[1], n).deleted}

\* C6: once the slices are loaded in a mode that looks at the drafts, every
\* name whose latest active version is not deleted and whose draft file is
\* gone has a source slice, and a resolved slice when it is resolved, with
\* deleted = true and version = latest active version + 1; a successful
\* sync() then writes the active file <name>@v<that version> with the empty
\* object as its content.
C6_TombstoneVersion ==
    [][/\ (source_slices # <<>> /\ UnknownFiles(Store) = {} =>
             \A n \in Tombstoned :
                /\ n \in DOMAIN source_slices[1]
                /\ source_slices[1][n].deleted
                /\ source_slices[1][n].version =
                      get_latest_slice(active_slices[1], n).version + 1
                /\ slices # <<>> /\ n \in DOMAIN slices[1] =>
                      /\ slices[1][n].deleted
                      /\ slices[1][n].version = source_slices[1][n].version)'
       /\ Promotion =>
             \A n \in Tombstoned :
                LET file == <<n, LatestVersion(active_dir, n) + 1>>
                IN file \in DOMAIN active_dir' /\ active_dir'[file] = <<>>]_vars

\* A deletion was promoted: version 2 of a name is the empty object, after
\* a version 1 that is not
C6_Witness ==
    \E n \in Names :
       /\ {<<n, 1>>, <<n, 2>>} \subseteq DOMAIN active_dir
       /\ active_dir[<<n, 1>>] # <<>>
       /\ active_dir[<<n, 2>>] = <<>>

\* Every schema-described node of a tree carries operation = delete
RECURSIVE AllDelete(_, _)
AllDelete(tree, cls) ==
    /\ "operation" \in DOMAIN tree
    /\ tree["operation"] = "delete"
    /\ \A i \in DOMAIN AllRelations[cls] :
          LET rel == AllRelations[cls][i]
          IN rel.name \in DOMAIN tree =>
                \A k \in DOMAIN Members(rel, tree[rel.name]) :
                   AllDelete(Members(rel, tree[rel.name])[k], rel.entity)

\* C7: every schema-described node of the resolved attribute tree of a
\* tombstoned slice, at every nesting level, carries operation = delete,
\* for every number of prior active versions of the name.
C7_TombstoneTree ==
    slices # <<>> =>
       \A n \in DOMAIN slices[1] :
          slices[1][n].deleted => AllDelete(slices[1][n].attributes, SliceClass)

\* C8: when sync() succeeds, every source slice has its active file
\* <name>@v<version> with the slice's attributes as content, every active
\* file that was there before is still there, and the only files added are
\* those of the source slices that are one version above the latest active
\* version of their name.
C8_Promotion ==
    [][Promotion =>
          /\ \A n \in DOMAIN source_slices[1] :
                LET file == <<n, source_slices[1][n].version>>
                IN /\ file \in DOMAIN active_dir'
                   /\ active_dir'[file] = source_slices[1][n].attributes
          /\ DOMAIN active_dir \subseteq DOMAIN active_dir'
          /\ \A file \in DOMAIN active_dir' \ DOMAIN active_dir :
                /\ file[1] \in DOMAIN source_slices[1]
                /\ file[2] = source_slices[1][file[1]].version
                /\ file[2] = LatestVersion(active_dir, file[1]) + 1]_vars

\* A changed draft was promoted to version 2 next to its version 1, while
\* another name stays at version 1
C8_Witness ==
    \E n, m \in Names :
       /\ VersionsOf(active_dir, n) = {1, 2}
       /\ VersionsOf(active_dir, m) = {1}
       /\ active_dir[<<n, 2>>] # active_dir[<<n, 1>>]
       /\ active_dir[<<n, 2>>] # <<>>

\* C9: in export mode the resolved slices are the latest active slices:
\* one slice per name that has an active file, at the latest active version
\* of the name, whatever the draft files hold.
C9_ExportIsolation ==
    COMPILE_MODE = COMPILE_EXPORT /\ slices # <<>> =>
       /\ DOMAIN slices[1] = ActiveNames(active_dir)
       /\ \A n \in DOMAIN slices[1] :
             slices[1][n].version = LatestVersion(active_dir, n)

\* C10: no step of a compile in update mode (get_all_slices, get_one_slice,
\* set_slice_attribute, the finalizer) creates, changes or removes a file of
\* the active directory.
C10_UpdateKeepsActive ==
    [][COMPILE_MODE = COMPILE_UPDATE => active_dir' = active_dir]_vars

\* A compile in update mode has written an edited attribute to the draft of
\* a name that has an active version without it
C10_Witness ==
    \E n \in DOMAIN source_dir :
       /\ <<n, 1>> \in DOMAIN active_dir
       /\ "unique_id" \in DOMAIN source_dir[n]
       /\ source_dir[n]["unique_id"] \in AttributeValues
       /\ "unique_id" \in DOMAIN active_dir[<<n, 1>>]
       /\ active_dir[<<n, 1>>]["unique_id"] = NoneValue
       /\ source_slices = <<>>

\* The step that loads the source slices: load_source_slices runs past its
\* cache check
SourceLoad == source_slices = <<>> /\ source_slices' # <<>>

Resolution == GetAllSlices \/ \E name \in Names : GetOneSlice(name)

\* C12: whenever load_slices returns the resolved slices, in any mode, they
\* hold every name that has an active file; and when they are resolved from
\* the directories in a mode that looks at the drafts, a name whose draft
\* file is gone is held as a slice with deleted = true.
C12_ActiveNamesResolved ==
    [][Resolution /\ raised' \in {"none", "LookupError"} =>
          /\ ActiveNames(active_dir) \subseteq DOMAIN slices'[1]
          /\ COMPILE_MODE \in DraftModes /\ source_slices = <<>> =>
                \A n \in ActiveNames(active_dir) \ DOMAIN source_dir :
                   n \in DOMAIN slices'[1] => slices'[1][n].deleted]_vars

\* The names whose deletion is recorded: the latest active file of the name
\* is a tombstone and the name has no draft file
Deleted ==
    {n \in ActiveNames(active_dir) \ DOMAIN source_dir : LatestContent(n) = <<>>}

\* C13: for a name whose latest active slice is deleted and that has no
\* draft file, load_source_slices reuses the latest active Slice, and a
\* successful sync() of an activation run leaves the name's latest active
\* version as it is and adds no active file of the name.
C13_DeletionRecordedOnce ==
    [][/\ SourceLoad =>
             \A n \in Deleted \cap DOMAIN source_slices'[1] :
                /\ source_slices'[1][n].version = LatestVersion(active_dir, n)
                /\ source_slices'[1][n].ref = ActiveRef(LatestVersion(active_dir, n))
                /\ source_slices'[1][n].deleted
       /\ Promotion =>
             \A n \in Deleted :
                VersionsOf(active_dir', n) = VersionsOf(active_dir, n)]_vars

\* Two activation runs in a row have promoted after the draft of a name was
\* removed: the first wrote the tombstone, the second found it as the latest
C13_Witness ==
    /\ resync = 3
    /\ \E n \in Deleted : VersionsOf(active_dir, n) = {1, 2}

\* C14: get_latest_slice(name) returns the active slice of the name that has
\* the highest version; for a name without active slice it returns a Slice
\* with version 0, deleted = true and empty attributes that is none of the
\* active slices: the lookup adds nothing to them.
C14_LatestSlice ==
    active_slices # <<>> =>
       \A n \in Names :
          LET active == active_slices[1]
              latest == get_latest_slice(active, n)
          IN IF \A f \in DOMAIN active : f[1] # n
             THEN /\ latest.name = n
                  /\ latest.version = 0
                  /\ latest.deleted
                  /\ latest.attributes = <<>>
                  /\ \A f \in DOMAIN active : active[f].ref # latest.ref
             ELSE /\ latest.name = n
                  /\ \E f \in DOMAIN active : f[1] = n /\ active[f] = latest
                  /\ \A f \in DOMAIN active : f[1] = n => active[f].version <= latest.version

\* The active slices are loaded: one name has the versions 1 and 2, the
\* other name has no active slice
C14_Witness ==
    /\ active_slices # <<>>
    /\ \E n, m \in Names :
          /\ VersionsOf(active_slices[1], n) = {1, 2}
          /\ VersionsOf(active_slices[1], m) = {}

\* C15: sync() called in update or export mode raises its RuntimeError and
\* leaves the draft directory and the active directory as they are.
C15_SyncGating ==
    [][Sync /\ COMPILE_MODE # COMPILE_SYNC =>
          /\ raised' = "RuntimeError"
          /\ source_dir' = source_dir
          /\ active_dir' = active_dir]_vars

\* sync() was refused in a compile in update mode that has loaded the source
\* slice of a draft: set_slice_attribute is legal there, so the RuntimeError
\* is the one of sync()
C15_Witness ==
    /\ COMPILE_MODE = COMPILE_UPDATE
    /\ raised = "RuntimeError"
    /\ source_slices # <<>>
    /\ DOMAIN source_slices[1] \cap DOMAIN source_dir # {}

\* C16: update() called in sync or export mode is rejected, it raises an
\* error, and writes no draft file.
C16_UpdateGating ==
    [][Update /\ COMPILE_MODE # COMPILE_UPDATE =>
          /\ raised' # "none"
          /\ source_dir' = source_dir]_vars

\* The step of a call of set_slice_attribute
AttributeEdit ==
    \E name \in Names, path \in AttributePaths, value \in AttributeValues :
       SetSliceAttribute(name, path, value)

\* C17: set_slice_attribute called in sync or export mode raises its
\* RuntimeError and changes neither the source slices, nor the resolved
\* slices, nor the active slices, nor any file.
C17_EditGating ==
    [][AttributeEdit /\ COMPILE_MODE # COMPILE_UPDATE =>
          /\ raised' = "RuntimeError"
          /\ source_slices' = source_slices
          /\ slices' = slices
          /\ active_slices' = active_slices
          /\ source_dir' = source_dir
          /\ active_dir' = active_dir]_vars

\* set_slice_attribute was refused in a compile in sync mode that has
\* resolved the slice of a draft: the attribute of the slice is not set
C17_Witness ==
    /\ COMPILE_MODE = COMPILE_SYNC
    /\ raised = "RuntimeError"
    /\ slices # <<>>
    /\ \E n \in DOMAIN slices[1] \cap DOMAIN source_dir :
          /\ ~slices[1][n].deleted
          /\ slices[1][n].attributes["unique_id"] = NoneValue

\* The finalizer step at the end of a compile
EndOfRun == \E next \in CompileModes : PersistStore(next)

\* The source slice and the resolved slice of a name both hold the value at
\* the path
IsSet(source, resolved, name, path, value) ==
    /\ source # <<>> /\ name \in DOMAIN source[1]
    /\ path \in DOMAIN source[1][name].attributes
    /\ source[1][name].attributes[path] = value
    /\ resolved # <<>> /\ name \in DOMAIN resolved[1]
    /\ path \in DOMAIN resolved[1][name].attributes
    /\ resolved[1][name].attributes[path] = value

\* C18: in update mode, a set_slice_attribute(name, path, v) that returns
\* leaves v at the path in the source slice and in the resolved slice of the
\* name; both keep it for the rest of the compile, so that get_one_slice
\* gives a slice with v at the path; and for a name whose draft file the
\* compile has loaded, the update() of the finalizer leaves the draft file
\* with v at the path.
C18_EditPersistence ==
    [][\A n \in Names, p \in AttributePaths, v \in AttributeValues :
          COMPILE_MODE = COMPILE_UPDATE =>
             /\ SetSliceAttribute(n, p, v) /\ raised' = "none"
                   => IsSet(source_slices', slices', n, p, v)
             /\ ~EndOfRun /\ IsSet(source_slices, slices, n, p, v)
                   => IsSet(source_slices', slices', n, p, v)
             /\ EndOfRun /\ raised' = "none"
                /\ IsSet(source_slices, slices, n, p, v)
                /\ n \in source_slice_files[1]
                   => /\ n \in DOMAIN source_dir'
                      /\ p \in DOMAIN source_dir'[n]
                      /\ source_dir'[n][p] = v]_vars

\* A compile has loaded a draft that holds a value set by set_slice_attribute
\* in an earlier compile, and resolved its slice with the value
C18_Witness ==
    /\ slices # <<>>
    /\ source_read # <<>>
    /\ \E n \in DOMAIN source_read[1] \cap DOMAIN slices[1] :
          /\ "unique_id" \in DOMAIN source_read[1][n]
          /\ source_read[1][n]["unique_id"] \in AttributeValues
          /\ ~slices[1][n].deleted
          /\ slices[1][n].attributes["unique_id"] = source_read[1][n]["unique_id"]

---------------------------------------------------------------------------
(* The merge engine on the attribute dicts the store holds                 *)

Operations == {"create", "update", "delete"}

\* The attribute dicts load_slices hands to merge_attributes as current: the
\* validated attributes of the source slices and of the active slices
MergeCurrents ==
    (IF source_slices = <<>> THEN {}
     ELSE {source_slices[1][n].attributes : n \in DOMAIN source_slices[1]})
    \cup
    (IF active_slices = <<>> THEN {}
     ELSE {active_slices[1][f].attributes : f \in DOMAIN active_slices[1]})

\* The merged trees of these dicts
MergedTrees ==
    {m \in {merge_attributes(c, <<>>, op, ".", EntitySchema(SliceClass)) :
              c \in MergeCurrents, op \in Operations} : ~IsError(m)}

\* What merge_attributes is given as previous: None, an attribute dict as
\* validated, or a merged tree
MergePrevious ==
    {<<>>} \cup {<<c>> : c \in MergeCurrents} \cup {<<m>> : m \in MergedTrees}

\* A merged node has the scalar attributes of current, except those listed
\* as synthetic, and so has every node below it that current has; the other
\* nodes are those of previous, as they are.
RECURSIVE PureNode(_, _, _, _, _)
PureNode(merged, current, previous, cls, synthetic) ==
    /\ \A a \in Range(AllAttributes[cls]) \ synthetic :
          /\ a \in DOMAIN merged
          /\ merged[a] = IF a \in DOMAIN current THEN current[a] ELSE NoneValue
    /\ \A r \in DOMAIN AllRelations[cls] :
          LET rel == AllRelations[cls][r]
              name == rel.name
              keys == EntitySchema(rel.entity).keys
          IN IF cardinality(rel) = <<1, 1>>
             THEN PureNode(merged[name], current[name],
                           IF previous # <<>> THEN <<previous[1][name]>> ELSE <<>>,
                           rel.entity, synthetic)
             ELSE IF cardinality(rel) = <<0, 1>>
             THEN LET current_value == IF name \in DOMAIN current
                                       THEN current[name] ELSE <<>>
                      previous_value == IF previous # <<>> /\ name \in DOMAIN previous[1]
                                        THEN previous[1][name] ELSE <<>>
                  IN IF current_value = <<>> THEN merged[name] = previous_value
                     ELSE /\ merged[name] # <<>>
                          /\ PureNode(merged[name][1], current_value[1],
                                      previous_value, rel.entity, synthetic)
             ELSE LET previous_list == IF previous # <<>> THEN previous[1][name]
                                       ELSE <<>>
                  IN /\ \A j \in DOMAIN current[name] :
                           \E i \in DOMAIN merged[name] :
                              MemberKey(keys, merged[name][i])
                                 = MemberKey(keys, current[name][j])
                     /\ \A i \in DOMAIN merged[name] :
                           LET key == MemberKey(keys, merged[name][i])
                               current_value == KeyedValue(keys, current[name], key)
                               previous_value == KeyedValue(keys, previous_list, key)
                           IN IF current_value = <<>>
                              THEN previous_value = <<merged[name][i]>>
                              ELSE PureNode(merged[name][i], current_value[1],
                                            previous_value, rel.entity, synthetic)

\* Every merge of the dicts at hand that returns gives a tree that is pure
\* for the listed synthetic attributes.
MergesPure(synthetic) ==
    \A c \in MergeCurrents, p \in MergePrevious, op \in Operations :
       LET pure(m) == IsError(m) \/ PureNode(m, c, p, SliceClass, synthetic)
       IN pure(merge_attributes(c, p, op, ".", EntitySchema(SliceClass)))

\* C19 as stated: every scalar attribute the schema declares, operation and
\* path among them, has in the output of merge_attributes the value current
\* has for it (None when current has none).
C19_AsStated == MergesPure({})

\* C19: for every current, previous and operation, each scalar attribute the
\* schema declares other than operation and path has, at the top node of the
\* output of merge_attributes and at every nested node reached through a
\* sub-structure present in current, the value current has for it (None when
\* absent), whatever previous contains; operation and path are set by the
\* merge itself; the only nodes that come from previous are the optional
\* sub-trees and collection members absent from current, taken as they are.
C19_MergePurity == MergesPure({"operation", "path"})

\* A merge of a current dict with a merged tree that differs in the scalar a
\* and has an optional sub-tree current has not: the output has the a of
\* current and the sub-tree of previous.
C19_Witness ==
    \E c \in MergeCurrents, p \in MergedTrees :
       LET hit(m) == /\ ~IsError(m)
                     /\ c["a"] # p["a"]
                     /\ m["a"] = c["a"]
                     /\ c["embedded_optional"] = <<>>
                     /\ p["embedded_optional"] # <<>>
                     /\ m["embedded_optional"] = p["embedded_optional"]
       IN hit(merge_attributes(c, <<p>>, "update", ".", EntitySchema(SliceClass)))

\* The merged trees of the dicts at hand that the fold of load_slices gives:
\* those merged with operation = delete
DeletedTrees ==
    {m \in {merge_attributes(c, <<>>, "delete", ".", EntitySchema(SliceClass)) :
              c \in MergeCurrents} : ~IsError(m)}

\* The dicts at hand that hold every field of a validated slice (the
\* attributes of a tombstone of load_source_slices are the empty dict)
ValidatedCurrents ==
    {c \in MergeCurrents : DumpedFields(EntitySchema(SliceClass)) \subseteq DOMAIN c}

\* Every optional sub-tree and every collection member that previous has and
\* current has not is in the merged node, equal to what it is in previous
\* and with operation = delete; the same below every relation that both
\* current and previous have.
RECURSIVE Reinserted(_, _, _, _)
Reinserted(merged, current, previous, cls) ==
    \A r \in DOMAIN AllRelations[cls] :
       LET rel == AllRelations[cls][r]
           name == rel.name
           keys == EntitySchema(rel.entity).keys
       IN IF cardinality(rel) = <<1, 1>>
          THEN Reinserted(merged[name], current[name], previous[name], rel.entity)
          ELSE IF cardinality(rel) = <<0, 1>>
          THEN IF previous[name] = <<>> THEN TRUE
               ELSE IF current[name] = <<>>
               THEN /\ merged[name] = previous[name]
                    /\ merged[name][1]["operation"] = "delete"
               ELSE /\ merged[name] # <<>>
                    /\ Reinserted(merged[name][1], current[name][1],
                                  previous[name][1], rel.entity)
          ELSE \A j \in DOMAIN previous[name] :
                  LET key == MemberKey(keys, previous[name][j])
                      current_value == KeyedValue(keys, current[name], key)
                      previous_value == KeyedValue(keys, previous[name], key)
                      hits == {i \in DOMAIN merged[name] :
                                  MemberKey(keys, merged[name][i]) = key}
                  IN /\ Cardinality(hits) = 1
                     /\ \A i \in hits :
                           IF current_value = <<>>
                           THEN /\ merged[name][i] = previous_value[1]
                                /\ merged[name][i]["operation"] = "delete"
                           ELSE Reinserted(merged[name][i], current_value[1],
                                           previous_value[1], rel.entity)

\* C20: for merge_attributes(current, previous, ...) where previous is a
\* merged tree, whenever the call returns, every optional-relation sub-tree
\* and every collection member (identified by its key tuple) that previous
\* has and current has not is in the output, equal to its previous sub-tree
\* and carrying operation = delete, at every nesting level reached through
\* relations that both trees have; and the call returns for every current
\* that holds the fields of a validated slice when previous was merged with
\* operation = delete, as the previous that load_slices folds are.
C20_MergeReinsertion ==
    /\ \A c \in MergeCurrents, p \in MergedTrees, op \in Operations :
          LET reinserted(m) == IsError(m) \/ Reinserted(m, c, p, SliceClass)
          IN reinserted(merge_attributes(c, <<p>>, op, ".", EntitySchema(SliceClass)))
    /\ \A c \in ValidatedCurrents, p \in DeletedTrees, op \in Operations :
          ~IsError(merge_attributes(c, <<p>>, op, ".", EntitySchema(SliceClass)))

\* A merge of a current dict with a tree merged from a dict that has an
\* optional sub-tree, a collection member and, below the required relation,
\* a nested optional sub-tree that current has not: the output has the three
\* of them as previous has them.
C20_Witness ==
    \E c \in MergeCurrents, p \in DeletedTrees :
       LET hit(m) ==
               /\ ~IsError(m)
               /\ c["embedded_optional"] = <<>>
               /\ c["embedded_sequence"] = <<>>
               /\ c["embedded_required"]["child"] = <<>>
               /\ p["embedded_optional"] # <<>>
               /\ p["embedded_sequence"] # <<>>
               /\ p["embedded_required"]["child"] # <<>>
               /\ m["embedded_optional"] = p["embedded_optional"]
               /\ m["embedded_sequence"] = p["embedded_sequence"]
               /\ m["embedded_required"]["child"] = p["embedded_required"]["child"]
               /\ m["embedded_required"]["child"][1]["operation"] = "delete"
       IN hit(merge_attributes(c, <<p>>, "update", ".", EntitySchema(SliceClass)))

\* The (0,1) relations of a merged node are reconciled as the three cases
\* say, and so are those of the nodes below the (1,1) relations
RECURSIVE OptionalReconciled(_, _, _, _, _, _)
OptionalReconciled(merged, current, previous, operation, path, cls) ==
    \A r \in DOMAIN AllRelations[cls] :
       LET rel == AllRelations[cls][r]
           name == rel.name
       IN IF cardinality(rel) = <<1, 1>>
          THEN OptionalReconciled(merged[name], current[name],
                                  IF previous # <<>> THEN <<previous[1][name]>>
                                  ELSE <<>>,
                                  operation, InDict(path, name), rel.entity)
          ELSE IF cardinality(rel) = <<0, 1>>
          THEN LET current_value == IF name \in DOMAIN current
                                    THEN current[name] ELSE <<>>
                   previous_value == IF previous # <<>> /\ name \in DOMAIN previous[1]
                                     THEN previous[1][name] ELSE <<>>
               IN IF current_value = <<>>
                  THEN merged[name] = previous_value
                  ELSE merged[name] =
                          <<merge_attributes(
                                current_value[1], previous_value,
                                IF operation = "delete" THEN "delete"
                                ELSE IF previous_value = <<>> THEN "create"
                                ELSE "update",
                                InDict(path, name), EntitySchema(rel.entity))>>
          ELSE TRUE

\* C21: for a (0,1) relation, the merged value is None when the relation is
\* absent from both current and previous; the previous sub-tree as it is
\* when it is absent from current and present in previous; and otherwise the
\* merge of the current sub-tree with the previous one, with operation
\* delete if the enclosing operation is delete, else create if there is no
\* previous value, else update.
C21_OptionalRelation ==
    \A c \in MergeCurrents, p \in MergePrevious, op \in Operations :
       LET reconciled(m) ==
               IsError(m) \/ OptionalReconciled(m, c, p, op, ".", SliceClass)
       IN reconciled(merge_attributes(c, p, op, ".", EntitySchema(SliceClass)))

\* The dicts at hand give each of the cases: the optional sub-dict in
\* neither, in previous alone (reused), in current alone (merged as create)
\* and in both (merged as update).
C21_Witness ==
    \E c, d \in ValidatedCurrents, p \in DeletedTrees :
       LET tree(x, prev) == merge_attributes(x, prev, "update", ".",
                                             EntitySchema(SliceClass))
           hit(neither, reused, created, updated) ==
               /\ c["embedded_optional"] = <<>>
               /\ d["embedded_optional"] # <<>>
               /\ p["embedded_optional"] # <<>>
               /\ ~IsError(neither) /\ ~IsError(reused)
               /\ ~IsError(created) /\ ~IsError(updated)
               /\ neither["embedded_optional"] = <<>>
               /\ reused["embedded_optional"] = p["embedded_optional"]
               /\ created["embedded_optional"][1]["operation"] = "create"
               /\ updated["embedded_optional"][1]["operation"] = "update"
       IN hit(tree(c, <<>>), tree(c, <<p>>), tree(d, <<>>), tree(d, <<p>>))

---------------------------------------------------------------------------
(* Collections of the merge engine                                         *)

\* The members a collection of the slice may hold: two members with
\* different keys, and a member with the key of the first and another
\* unique_id (the schema does not ask the keys of a collection to differ)
CollectionMembers ==
    {validate_python(Embedded("e"), "TestEmbeddedSlice"),
     validate_python(Embedded("f"), "TestEmbeddedSlice"),
     validate_python([name |-> "e", unique_id |-> "7"], "TestEmbeddedSlice")}

\* The longest collection taken
MaxMembers == 2

\* The collections of these members, in every order
Collections ==
    {q \in UNION {[1..n -> CollectionMembers] : n \in 0..MaxMembers} :
        \A i, j \in DOMAIN q : i # j => q[i] # q[j]}

\* A slice with another embedded_sequence
WithCollection(attributes, collection) ==
    [attributes EXCEPT !["embedded_sequence"] = collection]

Reverse(q) == [i \in DOMAIN q |-> q[Len(q) + 1 - i]]

KeysOf(collection) ==
    {MemberKey(EntitySchema("TestEmbeddedSlice").keys, collection[i]) :
        i \in DOMAIN collection}

\* The merged collection of current and previous has one member for each
\* key of the two, and the same members, paths and operations when the
\* members of current, or those of previous, are listed in another order.
Keyed(current, previous, operation) ==
    LET tree(c, p) == merge_attributes(c, <<p>>, operation, ".",
                                       EntitySchema(SliceClass))
        turned(x) == WithCollection(x, Reverse(x["embedded_sequence"]))
        same(m, n) ==
            /\ ~IsError(n)
            /\ Range(n["embedded_sequence"]) = Range(m["embedded_sequence"])
        keyed(m) ==
            \/ IsError(m)
            \/ /\ KeysOf(m["embedded_sequence"])
                     = KeysOf(current["embedded_sequence"])
                          \cup KeysOf(previous["embedded_sequence"])
               /\ Cardinality(KeysOf(m["embedded_sequence"]))
                     = Len(m["embedded_sequence"])
               /\ same(m, tree(turned(current), previous))
               /\ same(m, tree(current, turned(previous)))
    IN keyed(tree(current, previous))

\* Keyed for every current and previous with the given collections
CollectionsKeyed(collections) ==
    \A c \in ValidatedCurrents, q, r \in collections, op \in Operations :
       LET keyed(p) == IsError(p) \/ Keyed(WithCollection(c, q), p, op)
       IN keyed(merge_attributes(WithCollection(c, r), <<>>, "delete", ".",
                                 EntitySchema(SliceClass)))

\* C22: for a (0,None) relation the merged collection has exactly one member
\* per key tuple in the union of the key tuples of the members of current
\* and of previous, and permuting the members of current or of previous
\* gives the same set of merged members, with the same paths and operations.
C22_KeyedCollection == CollectionsKeyed(Collections)

---------------------------------------------------------------------------
(* The end of a run                                                        *)

\* Every cache of the store is dropped
Cleared(files, source, active_files, active, resolved) ==
    /\ files = <<>>
    /\ source = <<>>
    /\ active_files = <<>>
    /\ active = <<>>
    /\ resolved = <<>>

\* C23: after the end-of-run hook persist_store has run, the store has all
\* its caches dropped (source and active files and slices, resolved slices),
\* in every run mode and whatever the outcome of update() or sync().
C23_EndOfRunClearing ==
    [][EndOfRun => Cleared(source_slice_files', source_slices',
                           active_slice_files', active_slices', slices')]_vars

---------------------------------------------------------------------------
(* The registry of the stores                                              *)

\* C24: constructing a store whose name is already registered raises
\* RuntimeError and leaves the registry as it was, the name still resolving
\* to the store registered first; get_store of a name that was never
\* registered raises LookupError.
C24_UniqueStoreNames ==
    [][\A name \in StoreNames :
          /\ Construct(name) /\ name \in DOMAIN SLICE_STORE_REGISTRY
                => /\ raised' = "RuntimeError"
                   /\ SLICE_STORE_REGISTRY' = SLICE_STORE_REGISTRY
                   /\ get_store(SLICE_STORE_REGISTRY', name)
                         = get_store(SLICE_STORE_REGISTRY, name)
          /\ GetStore(name) /\ name \notin DOMAIN SLICE_STORE_REGISTRY
                => raised' = "LookupError"]_vars

\* Two stores are registered and, in a compile that edits drafts, where no
\* method of the store raises RuntimeError, the construction of one more
\* store has raised it.
C24_Witness ==
    /\ DOMAIN SLICE_STORE_REGISTRY = StoreNames
    /\ SLICE_STORE_REGISTRY[StoreName].id = 1
    /\ COMPILE_MODE = COMPILE_UPDATE
    /\ raised = "RuntimeError"

\* C25: the registry is bound to one run and cleared at its end: after the
\* end-of-run hook has executed, the registry no longer holds the stores
\* registered during that run.
C25_RegistryLifecycle ==
    [][EndOfRun => \A name \in registered : name \notin DOMAIN SLICE_STORE_REGISTRY']_vars

---------------------------------------------------------------------------
(* Slices looked up by name                                                *)

\* The name is none of the resolved slices of the store
NotFound(resolved, name) == resolved # <<>> /\ name \notin DOMAIN resolved[1]

\* C26: get_one_slice, get_slice_attribute and set_slice_attribute (in a
\* compile that may edit) raise an error to their caller when the name is
\* not a slice of the store; get_slice_attribute returns its default only
\* for a slice that exists.
C26_NotFoundSurfaced ==
    [][\A name \in Names :
          /\ GetOneSlice(name) /\ NotFound(slices', name) => raised' # "none"
          /\ \A path \in GetPaths :
                GetSliceAttribute(name, path) /\ NotFound(slices', name)
                   => raised' # "none"
          /\ \A path \in AttributePaths, value \in AttributeValues :
                SetSliceAttribute(name, path, value)
                   /\ (NotFound(slices', name) \/ NotFound(source_slices', name))
                   => raised' # "none"]_vars

---------------------------------------------------------------------------
(* The active directory                                                    *)

---------------------------------------------------------------------------
(* The versions of the slice files                                         *)

\* C28: every slice file the store loads from the active directory has a
\* version and every slice file it loads from the draft directory has none,
\* so the version of the Slice of a draft is the one the store assigns (1,
\* the latest active version, or the latest active version + 1) and never
\* one taken from the name of the draft file.
C28_FileVersions ==
    /\ active_slices # <<>> =>
          \A f \in DOMAIN active_slices[1] : active_slices[1][f].version = f[2]
    /\ source_slice_files # <<>> =>
          \A n \in source_slice_files[1] : draft_file_version[n] = <<>>
    /\ source_slices # <<>> /\ active_slices # <<>> =>
          \A n \in DOMAIN source_slices[1] :
             LET latest == get_latest_slice(active_slices[1], n)
             IN source_slices[1][n].version
                   \in {1, latest.version, latest.version + 1}

---------------------------------------------------------------------------
(* The delete tag across versions                                          *)

\* The exceptions of the statement `assert previous_value["operation"] ==
\* "delete"`: the tag is missing, or it is another one
AssertionFailures == {"KeyError", "AssertionError"}

\* C29: in every call of merge_attributes that load_slices makes, for every
\* active history and draft of a name, a sub-tree that current has not and
\* previous has carries operation = delete already, so the assertion of the
\* engine never fails; also for a name whose only prior version is a single
\* active file that no merge has seen.
C29_DeleteTagInvariant ==
    active_slices # <<>> /\ source_slices # <<>> =>
       \A n \in DOMAIN source_slices[1] :
          LET tagged(r) == ~(IsError(r) /\ r.error \in AssertionFailures)
          IN tagged(ResolveCurrent(active_slices[1], source_slices[1][n], n))

---------------------------------------------------------------------------
(* A blocked sync and the active directory                                 *)

\* C30: the check of all draft files of sync() is over before an active file
\* is written, so when sync() raises sync-blocked no active file has been
\* created or changed, also for the slices whose drafts did not change.
C30_SyncBlockedWritesNothing ==
    [][(Sync \/ EndOfRun) /\ raised' = "SyncBlocked" => active_dir' = active_dir]_vars

\* A sync was blocked with two source slices loaded that have no active file
\* yet: the draft of one is as it was loaded, the draft of the other is not
\* what the load read
C30_Witness ==
    /\ raised = "SyncBlocked"
    /\ source_slices # <<>>
    /\ source_read # <<>>
    /\ \E n, m \in DOMAIN source_slices[1] \cap DOMAIN source_read[1] :
          /\ n # m
          /\ <<n, source_slices[1][n].version>> \notin DOMAIN active_dir
          /\ <<m, source_slices[1][m].version>> \notin DOMAIN active_dir
          /\ n \in DOMAIN source_dir
          /\ source_read[1][n] = source_slices[1][n].attributes
          /\ source_dir[n] = source_read[1][n]
          /\ m \in DOMAIN source_dir
          /\ source_read[1][m] # source_dir[m]

---------------------------------------------------------------------------
(* The fold of the history of a name                                       *)

\* The number of active versions a name has at the start
HistoryLength == 3

\* The name that has active versions at the start
HistoryName == "s1"

\* The active directories runs of the store leave for the name from the
\* documents of Drafts: versions 1..HistoryLength, the first of them not a
\* tombstone and each version another content than the one before
Histories ==
    {h \in [{HistoryName} \X (1..HistoryLength) -> {DraftPlain, DraftRich, <<>>}] :
        /\ h[<<HistoryName, 1>>] # <<>>
        /\ \A v \in 1..(HistoryLength - 1) :
              h[<<HistoryName, v>>] # h[<<HistoryName, v + 1>>]}

\* The store after construction, in a project whose active directory holds
\* the versions of earlier runs
InitHistory ==
    /\ source_dir = <<>>
    /\ active_dir \in Histories
    /\ draft_file_version = [n \in Names |-> <<>>]
    /\ COMPILE_MODE \in CompileModes
    /\ \E r \in {register_store(<<>>, NewStore(<<>>, StoreName))} :
          SLICE_STORE_REGISTRY = r.registry
    /\ registered = {}
    /\ source_slice_files = <<>>
    /\ source_slices = <<>>
    /\ active_slice_files = <<>>
    /\ active_slices = <<>>
    /\ slices = <<>>
    /\ raised = "none"
    /\ source_read = <<>>
    /\ edits = 0
    /\ written_back = {}
    /\ resync = 0

SpecHistory == InitHistory /\ [][Next]_vars

\* The attribute dicts of the active slices of a name, newest first, as
\* load_slices lists them; without the latest when `current` is the latest
PriorVersions(active, name, current_is_latest) ==
    LET sorted == NewestFirst(active, name, VersionsOf(active, name))
        all == [i \in DOMAIN sorted |->
                  [attributes |-> sorted[i].attributes, ref |-> sorted[i].ref]]
    IN IF current_is_latest /\ all # <<>> THEN Tail(all) ELSE all

\* A fold that starts at the oldest pair of a list that is sorted newest
\* first: every version is merged, as current, with the aggregate of the
\* versions before it, as previous.  <<exception>> when a merge raises.
RECURSIVE FoldOldestFirst(_)
FoldOldestFirst(previous) ==
    IF Len(previous) < 2 THEN [i \in DOMAIN previous |-> previous[i].attributes]
    ELSE LET merged(m) == <<m>>
             older(aggregate) ==
                 IF IsError(aggregate[1]) THEN aggregate
                 ELSE merged(merge_attributes(previous[1].attributes, aggregate,
                                              "delete", ".", EntitySchema(SliceClass)))
         IN older(FoldOldestFirst(Tail(previous)))

\* The trees, or the exception, the loop of load_slices leaves
Folded(previous) ==
    LET trees(f) == [i \in DOMAIN f |-> IF IsError(f[i]) THEN f[i] ELSE f[i].attributes]
    IN trees(FoldPrevious(previous))

\* C31: the previous tree load_slices merges the current slice with is the
\* fold of merge_attributes, oldest first, over the prior active versions of
\* the name (the latest left out when it is the current slice), and the fold
\* leaves at most one tree.
C31_HistoryFolding ==
    active_slices # <<>> =>
       \A n \in ActiveNames(active_slices[1]), latest \in BOOLEAN :
          LET oldest_first(folded, expected) ==
                  /\ Len(folded) <= 1
                  /\ folded = expected
          IN \E prior \in {PriorVersions(active_slices[1], n, latest)} :
                oldest_first(Folded(prior), FoldOldestFirst(prior))

---------------------------------------------------------------------------
(* The operation of a resolved slice                                       *)

\* C32: the resolved tree of a slice that is not deleted has operation =
\* create when the name has no active version other than the current slice
\* itself, and operation = update when it has one.
C32_TopLevelOperation ==
    slices # <<>> /\ active_slices # <<>> =>
       \A n \in DOMAIN slices[1] :
          ~slices[1][n].deleted =>
             LET others == VersionsOf(active_slices[1], n) \ {slices[1][n].version}
             IN slices[1][n].attributes["operation"] =
                   IF others = {} THEN "create" ELSE "update"

\* The slices are resolved in a compile that looks at the drafts: one name
\* has its only active version as current slice (create), the other has a
\* draft that differs from its active version (update)
C32_Witness ==
    /\ COMPILE_MODE \in DraftModes
    /\ slices # <<>>
    /\ active_slices # <<>>
    /\ \E n, m \in DOMAIN slices[1] :
          /\ VersionsOf(active_slices[1], n) = {1}
          /\ slices[1][n].version = 1
          /\ slices[1][n].attributes["operation"] = "create"
          /\ VersionsOf(active_slices[1], m) = {1}
          /\ slices[1][m].version = 2
          /\ ~slices[1][m].deleted
          /\ slices[1][m].attributes["operation"] = "update"

---------------------------------------------------------------------------
(* A slice created again after its deletion                                *)

\* The names that are created again: the latest active file of the name is
\* a tombstone and the name has a draft file
Recreated ==
    {n \in ActiveNames(active_dir) \cap DOMAIN source_dir : LatestContent(n) = <<>>}

\* C33: for a name whose active history ends with a tombstone and that has
\* a draft again, load_slices, in a compile that looks at the drafts and
\* has nothing cached, returns; the resolved slice of the name is not
\* deleted, has the version of the tombstone + 1 and the values of the draft.
C33_Recreation ==
    [][/\ Resolution
       /\ COMPILE_MODE \in DraftModes
       /\ Cleared(source_slice_files, source_slices, active_slice_files,
                  active_slices, slices)
       => \A n \in Recreated :
             /\ raised' \in {"none", "LookupError"}
             /\ n \in DOMAIN slices'[1]
             /\ ~slices'[1][n].deleted
             /\ slices'[1][n].version = LatestVersion(active_dir, n) + 1
             /\ slices'[1][n].attributes["a"] = source_dir[n]["a"]]_vars

---------------------------------------------------------------------------
(* The cache of the resolved slices                                        *)

\* The names and versions of the resolved slices
ResolvedVersions(resolved) ==
    [n \in DOMAIN resolved[1] |-> resolved[1][n].version]

\* The version the files on disk give the slice of a name in the current
\* compile mode
DiskVersion(n) ==
    LET latest == LatestVersion(active_dir, n)
    IN IF COMPILE_MODE \notin DraftModes THEN latest
       ELSE IF n \in DOMAIN source_dir
       THEN IF latest = 0 THEN 1
            ELSE IF source_dir[n] = LatestContent(n) THEN latest
            ELSE latest + 1
       ELSE IF LatestContent(n) = <<>> THEN latest
       ELSE latest + 1

\* The names the files on disk give a slice in the current compile mode
DiskNames ==
    ActiveNames(active_dir)
    \cup (IF COMPILE_MODE \in DraftModes THEN DOMAIN source_dir ELSE {})

\* C34: once the resolved slices are cached, a call of get_all_slices or
\* get_one_slice returns the same names and versions, whatever the files on
\* disk have become; and the first call after clear() that returns gives
\* the names and versions of the files that are on disk at that moment.
C34_CacheStability ==
    [][/\ Resolution /\ slices # <<>> =>
             /\ slices' # <<>>
             /\ ResolvedVersions(slices') = ResolvedVersions(slices)
       /\ /\ Resolution
          /\ Cleared(source_slice_files, source_slices, active_slice_files,
                     active_slices, slices)
          /\ raised' \in {"none", "LookupError"}
          => ResolvedVersions(slices') = [n \in DiskNames |-> DiskVersion(n)]]_vars

\* get_one_slice has raised LookupError, in a compile that looks at the
\* drafts, for a name that has a draft file: the file was written after the
\* slices were resolved and cached
C34_Witness ==
    /\ COMPILE_MODE \in DraftModes
    /\ raised = "LookupError"
    /\ slices # <<>>
    /\ DOMAIN slices[1] # {}
    /\ \E n \in DOMAIN source_dir : n \notin DOMAIN slices[1]

---------------------------------------------------------------------------
(* A draft-edit run followed by an activation run                          *)

\* C35: when every draft file holds what the update() at the end of a
\* completed draft-edit run wrote into it, no draft file having been
\* written, created or removed since, the sync() of an activation run that
\* has loaded them does not raise: it is not sync-blocked, and every draft
\* has its active file at the version computed for it, with the content of
\* the draft.
C35_UpdateThenSync ==
    [][/\ ActivationEnd
       /\ source_slices # <<>>
       /\ source_slice_files[1] = DOMAIN source_dir
       /\ written_back = DOMAIN source_dir
       => /\ raised' = "none"
          /\ \A n \in DOMAIN source_dir :
                LET file == <<n, source_slices[1][n].version>>
                IN /\ file \in DOMAIN active_dir'
                   /\ active_dir'[file] = source_dir[n]]_vars

\* The draft of a name holds an attribute value that set_slice_attribute
\* set and the update() of the finalizer wrote, and the activation run after
\* it has promoted the draft: the latest active file of the name has the
\* content of the draft
C35_Witness ==
    /\ raised = "none"
    /\ \E n \in written_back :
          /\ source_dir[n]["unique_id"] \in AttributeValues
          /\ source_dir[n]["embedded_required"]["child"] = <<>>
          /\ LatestContent(n) = source_dir[n]

---------------------------------------------------------------------------
(* The slices load_slices reads                                            *)

\* The keys load_slices writes into the attributes of a resolved slice
Annotations == {"version", "slice_store", "slice_name"}

\* No slice of a cache holds an annotation in its attributes
Unannotated(cached) ==
    cached # <<>> =>
       \A k \in DOMAIN cached[1] : DOMAIN cached[1][k].attributes \cap Annotations = {}

\* C36: load_slices leaves the attributes of the cached active slices and
\* source slices as they were constructed: the annotations version,
\* slice_store and slice_name are in the attributes of the resolved slices
\* only, also when the current slice is deleted.
C36_SlicesImmutable ==
    /\ Unannotated(active_slices)
    /\ Unannotated(source_slices)

---------------------------------------------------------------------------
(* The delete operation across a tree                                      *)

\* The trees the final merge of load_slices gives when previous is a tree
\* of the fold: they hold the sub-trees of previous that current has not
ReinsertedTrees ==
    {m \in {merge_attributes(c, <<d>>, op, ".", EntitySchema(SliceClass)) :
              c \in ValidatedCurrents, d \in DeletedTrees, op \in Operations} :
        ~IsError(m)}

\* C37: a merge_attributes called with operation = delete that returns (the
\* sub-trees it reuses from previous are tagged delete, or the assertion of
\* the engine fails) gives a tree whose schema-described nodes all carry
\* operation = delete, for previous None, a raw dict, a merged tree or a
\* tree that holds reused sub-trees itself.
C37_DeletePropagates ==
    \A c \in MergeCurrents,
       p \in MergePrevious \cup {<<m>> : m \in ReinsertedTrees} :
       LET deleted(m) == IsError(m) \/ AllDelete(m, SliceClass)
       IN deleted(merge_attributes(c, p, "delete", ".", EntitySchema(SliceClass)))

\* The dicts at hand give a merge with operation = delete that reuses the
\* optional sub-tree of previous, and one that merges the optional sub-tree
\* and the collection member of current with no previous
C37_Witness ==
    \E c, d \in ValidatedCurrents, p \in DeletedTrees :
       LET tree(x, prev) == merge_attributes(x, prev, "delete", ".",
                                             EntitySchema(SliceClass))
           hit(reused, fresh) ==
               /\ c["embedded_optional"] = <<>>
               /\ p["embedded_optional"] # <<>>
               /\ d["embedded_optional"] # <<>>
               /\ d["embedded_sequence"] # <<>>
               /\ ~IsError(reused) /\ ~IsError(fresh)
               /\ reused["embedded_optional"] = p["embedded_optional"]
               /\ AllDelete(reused, SliceClass)
               /\ fresh["embedded_optional"][1]["operation"] = "delete"
               /\ fresh["embedded_sequence"][1]["operation"] = "delete"
       IN hit(tree(c, <<p>>), tree(d, <<>>))

---------------------------------------------------------------------------
(* The versions of the active directory                                    *)

\* C38: starting from an empty active directory, whatever the drafts
\* written and removed and the runs made, the active versions of every name
\* are 1..n, with one file for each.
C38_NoVersionGaps ==
    \A n \in Names :
       VersionsOf(active_dir, n) = 1..LatestVersion(active_dir, n)

---------------------------------------------------------------------------
(* The members of a collection of current                                  *)

\* A merged member holds the scalar attributes of a member of current
FromCurrent(merged_member, member) ==
    \A a \in DOMAIN member \ AllRelationNames["TestEmbeddedSlice"] :
       a \in DOMAIN merged_member /\ merged_member[a] = member[a]

\* C39: every member of a collection of current is in the merged
\* collection: with no previous, the merged collection has as many members
\* as the list of current, one for each, also when two members of current
\* have the same key tuple.
C39_NoMemberDropped ==
    \A c \in ValidatedCurrents, q \in Collections, op \in Operations :
       LET kept(m) ==
               \/ IsError(m)
               \/ /\ Len(m["embedded_sequence"]) = Len(q)
                  /\ \A i \in DOMAIN q :
                        \E j \in DOMAIN m["embedded_sequence"] :
                           FromCurrent(m["embedded_sequence"][j], q[i])
       IN kept(merge_attributes(WithCollection(c, q), <<>>, op, ".",
                                EntitySchema(SliceClass)))

---------------------------------------------------------------------------
(* The fallback cases of the merge engine                                  *)

\* The merge did not end in the fallback case of a match statement
Regular(m) == IsError(m) => m.error # "ValueError"

\* C40: for trees that are valid for the schema, no merge_attributes ends
\* in the fallback case of its match statements: for an optional relation
\* and for every key of the union of the keys of a collection of current
\* and previous, one of the regular cases applies.  The second conjunct
\* takes the collections of up to MaxMembers members, equal keys included,
\* through the loop of the engine over the keys.
C40_FallbackUnreachable ==
    /\ \A c \in MergeCurrents, p \in MergePrevious, op \in Operations :
          Regular(merge_attributes(c, p, op, ".", EntitySchema(SliceClass)))
    /\ \A r \in Collections :
          LET relation == RelationNamed(EntitySchema(SliceClass), "embedded_sequence")
              regular(p) ==
                  /\ Regular(p)
                  /\ IsError(p) \/
                        \A q \in Collections :
                           Regular(MergeRelation([embedded_sequence |-> q],
                                                 <<[embedded_sequence |-> p.value]>>,
                                                 "update", ".", relation))
          IN regular(MergeRelation([embedded_sequence |-> r], <<>>, "delete", ".",
                                   relation))

\* Two merges of collections that return: one with a key that both current
\* and previous have and a key of previous alone, one with a key that both
\* have and a key of current alone
C40_Witness ==
    \E c \in ValidatedCurrents, q, r \in Collections :
       LET tree(x, prev, op) == merge_attributes(x, prev, op, ".",
                                                 EntitySchema(SliceClass))
           operations(m) ==
               {m["embedded_sequence"][i]["operation"] :
                  i \in DOMAIN m["embedded_sequence"]}
           hit(shrunk, grown) ==
               /\ ~IsError(shrunk) /\ ~IsError(grown)
               /\ operations(shrunk) = {"update", "delete"}
               /\ operations(grown) = {"update", "create"}
           previous(x) == tree(WithCollection(c, x), <<>>, "delete")
       IN /\ Len(q) = 1 /\ Len(r) = 2
          /\ KeysOf(q) \subseteq KeysOf(r)
          /\ Cardinality(KeysOf(r)) = 2
          /\ ~IsError(previous(q)) /\ ~IsError(previous(r))
          /\ hit(tree(WithCollection(c, q), <<previous(r)>>, "update"),
                 tree(WithCollection(c, r), <<previous(q)>>, "update"))

====
